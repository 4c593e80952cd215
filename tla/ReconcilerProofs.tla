-------------------------- MODULE ReconcilerProofs --------------------------
(***************************************************************************)
(* Proofs about Reconciler, for every set of nodes and target groups and   *)
(* every replication factor.                                               *)
(***************************************************************************)
EXTENDS Reconciler, FiniteSetTheorems, TLAPS

\* The entries of the maps: a node of the placements map has a status, a node
\* that is not in it has no target groups.
KnownInv ==
  \A d \in DataPlanes :
    /\ d \in known => dplStatuses[d].State # "none"
    /\ d \notin known => placements[d] = Unplaced

\* Only target groups that exist in etcd are heard of, known or placed.
SpecInv ==
  /\ targetGroups \subseteq specKeys
  /\ \A i \in DOMAIN eventCh : eventCh[i].type = "tg" => eventCh[i].tg \in specKeys
  /\ \A d \in DataPlanes : store[d].tgs \subseteq specKeys

InCall == pc \in {"balance", "commit"}

\* The desired placement of a call: only known target groups, and a change only
\* together with a greater version.
DesiredInv ==
  InCall =>
    \A d \in DataPlanes :
      /\ desired[d].tgs \subseteq targetGroups
      /\ d \notin known => desired[d] = Unplaced
      /\ desired[d].version >= placements[d].version
      /\ desired[d].version = placements[d].version
           => desired[d].tgs = placements[d].tgs

\* The sorted loads name distinct alive nodes and the pointers stay inside.
LoadsInv ==
  InCall =>
    /\ Alive # {}
    /\ loads \in [1 .. Cardinality(Alive) -> Alive]
    /\ \A i, j \in 1 .. Cardinality(Alive) : i # j => loads[i] # loads[j]
    /\ leftPtr >= 1
    /\ rightPtr <= Cardinality(Alive)

\* The inductive invariant that holds whatever a failed commit did to etcd.
LocalInv ==
  /\ TypeOK
  /\ KnownInv
  /\ AssignmentsMatchPlacements
  /\ SpecInv
  /\ DesiredInv
  /\ LoadsInv

----------------------------------------------------------------------------
\* Facts about the data

LEMMA EventType ==
  ASSUME NEW e \in Event
  PROVE  /\ e.type \in {"alive", "drained", "dead", "tg"}
         /\ e.type # "tg" => e.node \in DataPlanes
         /\ e.type = "tg" => e.tg \in TargetGroups
  BY DEF Event

LEMMA HeadTail ==
  ASSUME NEW S, NEW s \in Seq(S), s # << >>
  PROVE  /\ Head(s) \in S
         /\ Tail(s) \in Seq(S)
         /\ Head(s) = s[1]
         /\ 1 \in DOMAIN s
         /\ \A i \in DOMAIN Tail(s) : i + 1 \in DOMAIN s /\ Tail(s)[i] = s[i + 1]
  OBVIOUS

LEMMA Appended ==
  ASSUME NEW S, NEW s \in Seq(S), NEW e \in S
  PROVE  /\ Append(s, e) \in Seq(S)
         /\ \A i \in DOMAIN Append(s, e) :
              Append(s, e)[i] = e \/ (i \in DOMAIN s /\ Append(s, e)[i] = s[i])
  OBVIOUS

LEMMA AliveType ==
  ASSUME TypeOK
  PROVE  /\ Alive \subseteq DataPlanes
         /\ Alive \subseteq known
         /\ IsFiniteSet(Alive)
         /\ Cardinality(Alive) \in Nat
  <1>1. Alive \subseteq DataPlanes /\ Alive \subseteq known
    BY DEF TypeOK, Alive
  <1> QED
    BY <1>1, ConstantsAssumption, FS_Subset, FS_CardinalityType

LEMMA NothingDesiredType == NothingDesired \in [DataPlanes -> Placement]
  BY DEF NothingDesired, Unplaced, Placement

LEMMA UnplacedType == Unplaced \in Placement /\ Unplaced.tgs = {} /\ Unplaced.version = 0
  BY DEF Unplaced, Placement

LEMMA ReplayType ==
  ASSUME NEW s \in ReplayedEvents
  PROVE  s \in Seq(Event) /\ \A i \in DOMAIN s : s[i].type = "dead"
  <1>1. CASE s = << >>
    BY <1>1
  <1>2. ASSUME NEW d \in DataPlanes, s = <<[type |-> "dead", node |-> d]>>
        PROVE  s \in Seq(Event) /\ \A i \in DOMAIN s : s[i].type = "dead"
    <2>1. [type |-> "dead", node |-> d] \in Event
      BY DEF Event
    <2> QED
      BY <1>2, <2>1
  <1> QED
    BY <1>1, <1>2 DEF ReplayedEvents

LEMMA SpentType ==
  ASSUME NEW s \in [events : Nat, ticks : Nat, errors : Nat, failovers : Nat]
  PROVE  /\ [s EXCEPT !.events = @ + 1] \in
              [events : Nat, ticks : Nat, errors : Nat, failovers : Nat]
         /\ [s EXCEPT !.ticks = @ + 1] \in
              [events : Nat, ticks : Nat, errors : Nat, failovers : Nat]
         /\ [s EXCEPT !.errors = @ + 1] \in
              [events : Nat, ticks : Nat, errors : Nat, failovers : Nat]
         /\ [s EXCEPT !.failovers = @ + 1] \in
              [events : Nat, ticks : Nat, errors : Nat, failovers : Nat]
  OBVIOUS

----------------------------------------------------------------------------
\* The invariant LocalInv

LEMMA LocalInit == Init => LocalInv
  <1> SUFFICES ASSUME Init PROVE LocalInv
    OBVIOUS
  <1> USE DEF Init
  <1>1. TypeOK
    <2>1. store \in [DataPlanes -> Placement] /\ desired \in [DataPlanes -> Placement]
      BY NothingDesiredType
    <2>2. dplStatuses \in [DataPlanes -> Status]
      BY DEF SyncedStatus, Status
    <2>3. eventCh \in Seq(Event)
      BY ReplayType
    <2>4. delayedDeaths \in Seq(Death) /\ loads \in Seq(DataPlanes)
      OBVIOUS
    <2>5. assignments \in [TargetGroups -> SUBSET DataPlanes]
      BY DEF Holders
    <2> QED
      BY <2>1, <2>2, <2>3, <2>4, <2>5 DEF TypeOK, SyncedKnown, Attempts
  <1>2. KnownInv
    BY DEF KnownInv, SyncedKnown, SyncedStatus
  <1>3. AssignmentsMatchPlacements
    BY DEF AssignmentsMatchPlacements, Holders, NothingDesired, Unplaced
  <1>4. SpecInv
    BY ReplayType DEF SpecInv, NothingDesired, Unplaced
  <1>5. DesiredInv /\ LoadsInv
    BY DEF DesiredInv, LoadsInv, InCall
  <1> QED
    BY <1>1, <1>2, <1>3, <1>4, <1>5 DEF LocalInv

\* A step that touches neither maps nor the call in progress.
LEMMA LocalUntouched ==
  ASSUME LocalInv, TypeOK', SpecInv',
         UNCHANGED <<placements, known, targetGroups, assignments, dplStatuses, callVars>>
  PROVE  LocalInv'
  <1> USE DEF LocalInv, callVars
  <1>1. KnownInv'
    BY DEF KnownInv
  <1>2. AssignmentsMatchPlacements'
    BY DEF AssignmentsMatchPlacements, Holders
  <1>3. Alive' = Alive
    BY DEF Alive
  <1>4. DesiredInv'
    BY DEF DesiredInv, InCall
  <1>5. LoadsInv'
    BY <1>3 DEF LoadsInv, InCall
  <1> QED
    BY <1>1, <1>2, <1>4, <1>5

LEMMA NotifyKeepsTypes ==
  ASSUME LocalInv, NEW e \in Event, Notify(e),
         statusKeys' \in [DataPlanes -> {"none", "alive", "drained"}],
         specKeys' \in SUBSET TargetGroups
  PROVE  TypeOK'
  <1>1. eventCh' \in Seq(Event)
    BY Appended DEF Notify, LocalInv, TypeOK
  <1>2. spent' \in [events : Nat, ticks : Nat, errors : Nat, failovers : Nat]
    BY SpentType DEF Notify, LocalInv, TypeOK
  <1> QED
    BY <1>1, <1>2 DEF Notify, LocalInv, TypeOK, placementVars, callVars

LEMMA LocalEnvironment ==
  ASSUME LocalInv, Environment
  PROVE  LocalInv'
  <1> USE DEF LocalInv
  <1>1. ASSUME NEW d \in DataPlanes, NEW value \in {"alive", "drained"}, PutStatus(d, value)
        PROVE  LocalInv'
    <2>1. [type |-> value, node |-> d] \in Event
      BY DEF Event
    <2>2. TypeOK'
      BY <1>1, <2>1, NotifyKeepsTypes DEF PutStatus, TypeOK
    <2>3. SpecInv'
      BY <1>1, <2>1, Appended DEF PutStatus, Notify, SpecInv, TypeOK
    <2> QED
      BY <1>1, <2>2, <2>3, LocalUntouched DEF PutStatus, Notify, placementVars
  <1>2. ASSUME NEW d \in DataPlanes, ExpireStatus(d)
        PROVE  LocalInv'
    <2>1. [type |-> "dead", node |-> d] \in Event
      BY DEF Event
    <2>2. TypeOK'
      BY <1>2, <2>1, NotifyKeepsTypes DEF ExpireStatus, TypeOK
    <2>3. SpecInv'
      BY <1>2, <2>1, Appended DEF ExpireStatus, Notify, SpecInv, TypeOK
    <2> QED
      BY <1>2, <2>2, <2>3, LocalUntouched DEF ExpireStatus, Notify, placementVars
  <1>3. ASSUME NEW tg \in TargetGroups, PutTargetGroup(tg)
        PROVE  LocalInv'
    <2>1. [type |-> "tg", tg |-> tg] \in Event
      BY DEF Event
    <2>2. TypeOK'
      <3>1. specKeys' \in SUBSET TargetGroups /\ statusKeys' = statusKeys
        BY <1>3 DEF PutTargetGroup, TypeOK
      <3>2. Notify([type |-> "tg", tg |-> tg])
        BY <1>3 DEF PutTargetGroup
      <3>3. statusKeys \in [DataPlanes -> {"none", "alive", "drained"}]
        BY DEF TypeOK
      <3> QED
        BY <2>1, <3>1, <3>2, <3>3, NotifyKeepsTypes
    <2>3. SpecInv'
      BY <1>3, <2>1, Appended DEF PutTargetGroup, Notify, SpecInv, TypeOK
    <2> QED
      BY <1>3, <2>2, <2>3, LocalUntouched DEF PutTargetGroup, Notify, placementVars
  <1>4. CASE LoseLease
    <2>1. TypeOK'
      <3>1. spent' \in [events : Nat, ticks : Nat, errors : Nat, failovers : Nat]
        BY <1>4, SpentType DEF LoseLease, TypeOK
      <3> QED
        BY <1>4, <3>1 DEF LoseLease, TypeOK, placementVars, eventVars, callVars
    <2>2. SpecInv'
      BY <1>4 DEF LoseLease, SpecInv, eventVars
    <2> QED
      BY <1>4, <2>1, <2>2, LocalUntouched DEF LoseLease, placementVars
  <1> QED
    BY <1>1, <1>2, <1>3, <1>4 DEF Environment

LEMMA LocalBecomeLeader ==
  ASSUME LocalInv, BecomeLeader
  PROVE  LocalInv'
  <1> USE DEF LocalInv, BecomeLeader
  <1>1. TypeOK'
    <2>1. dplStatuses' \in [DataPlanes -> Status]
      BY DEF TypeOK, SyncedStatus, Status
    <2>2. eventCh' \in Seq(Event)
      BY ReplayType
    <2>3. assignments' \in [TargetGroups -> SUBSET DataPlanes]
      BY DEF Holders
    <2>4. delayedDeaths' \in Seq(Death) /\ loads' \in Seq(DataPlanes)
      OBVIOUS
    <2> QED
      BY <2>1, <2>2, <2>3, <2>4, NothingDesiredType DEF TypeOK, SyncedKnown, Attempts
  <1>2. KnownInv'
    BY DEF KnownInv, SyncedKnown, SyncedStatus
  <1>3. AssignmentsMatchPlacements'
    BY DEF AssignmentsMatchPlacements, Holders, SpecInv
  <1>4. SpecInv'
    BY ReplayType DEF SpecInv
  <1>5. DesiredInv' /\ LoadsInv'
    BY DEF DesiredInv, LoadsInv, InCall
  <1> QED
    BY <1>1, <1>2, <1>3, <1>4, <1>5

LEMMA OutOfCall ==
  ASSUME pc' \in {"idle", "calc"}
  PROVE  DesiredInv' /\ LoadsInv'
  BY DEF DesiredInv, LoadsInv, InCall

LEMMA LoopCall ==
  ASSUME LocalInv, pc = "idle", StayIdle \/ StartReconcile
  PROVE  /\ pc' \in {"idle", "calc"}
         /\ attempt' \in 0 .. Attempts
         /\ UNCHANGED <<desired, loads, leftPtr, rightPtr>>
  BY DEF LocalInv, TypeOK, StayIdle, StartReconcile, callVars, Attempts

LEMMA Received ==
  ASSUME LocalInv, NEW type, Receive(type)
  PROVE  /\ pc = "idle"
         /\ Head(eventCh) \in Event
         /\ Head(eventCh).type = type
         /\ type = "tg" => Head(eventCh).tg \in specKeys
         /\ eventCh' \in Seq(Event)
         /\ eventTimestamp' \in Nat
         /\ \A i \in DOMAIN eventCh' : eventCh'[i].type = "tg" => eventCh'[i].tg \in specKeys
  BY HeadTail DEF Receive, LocalInv, TypeOK, SpecInv

LEMMA LocalReceiveDeath ==
  ASSUME LocalInv, ReceiveDeath
  PROVE  LocalInv'
  <1> USE DEF LocalInv, ReceiveDeath
  <1>1. [node |-> Head(eventCh).node, timestamp |-> eventTimestamp + 1] \in Death
    BY Received, EventType DEF Death, TypeOK
  <1>2. delayedDeaths' \in Seq(Death)
    BY <1>1, Appended DEF TypeOK
  <1>3. TypeOK'
    BY <1>2, Received DEF TypeOK, etcdVars, placementVars, callVars
  <1>4. SpecInv'
    BY Received DEF SpecInv, etcdVars
  <1> QED
    BY <1>3, <1>4, LocalUntouched DEF placementVars

\* The node that handleDataPlaneAlive adds to the placements map had no target groups.
LEMMA AliveKeepsPlacements ==
  ASSUME LocalInv, HandleDataPlaneAlive
  PROVE  placements' = placements
  <1> DEFINE d == Head(eventCh).node
  <1>1. d \in DataPlanes
    BY Received, EventType DEF HandleDataPlaneAlive
  <1>2. dplStatuses[d] = NoStatus => placements[d] = Unplaced
    BY <1>1 DEF LocalInv, KnownInv, NoStatus
  <1>3. \/ dplStatuses[d] = NoStatus /\ placements' = [placements EXCEPT ![d] = Unplaced]
        \/ UNCHANGED placements
    BY DEF HandleDataPlaneAlive
  <1> QED
    BY <1>1, <1>2, <1>3 DEF LocalInv, TypeOK

LEMMA LocalHandleDataPlaneAlive ==
  ASSUME LocalInv, HandleDataPlaneAlive
  PROVE  LocalInv'
  <1> DEFINE d == Head(eventCh).node
             old == dplStatuses[d]
             new == [State |-> "alive", LastEvent |-> "alive",
                     Timestamp |-> MaxOf(eventTimestamp + 1, old.Timestamp)]
  <1> USE DEF LocalInv
  <1>1. d \in DataPlanes /\ Receive("alive")
    BY Received, EventType DEF HandleDataPlaneAlive
  <1>2. old \in Status /\ eventTimestamp \in Nat
    BY <1>1 DEF TypeOK
  <1>3. new \in Status
    BY <1>2 DEF Status, MaxOf
  <1>4. dplStatuses' = [dplStatuses EXCEPT ![d] = new]
    BY DEF HandleDataPlaneAlive
  <1>5. dplStatuses' \in [DataPlanes -> Status]
    BY <1>1, <1>3, <1>4 DEF TypeOK
  <1>6. /\ pc' \in {"idle", "calc"}
        /\ attempt' \in 0 .. Attempts
        /\ UNCHANGED <<desired, loads, leftPtr, rightPtr>>
    BY <1>1, Received, LoopCall DEF HandleDataPlaneAlive
  <1>7. \/ /\ old = NoStatus
           /\ known' = known \cup {d}
           /\ placements' = [placements EXCEPT ![d] = Unplaced]
        \/ UNCHANGED <<known, placements>> /\ old # NoStatus
    BY DEF HandleDataPlaneAlive
  <1>8. /\ UNCHANGED <<etcdVars, assignments, targetGroups, delayedDeaths, delayedRuns, spent>>
    BY DEF HandleDataPlaneAlive
  <1>9. placements' = placements
    BY AliveKeepsPlacements
  <1>10. TypeOK'
    BY <1>1, <1>5, <1>6, <1>7, <1>8, <1>9, Received DEF TypeOK, etcdVars
  <1>11. KnownInv'
    BY <1>1, <1>4, <1>7, <1>9 DEF KnownInv, TypeOK, NoStatus
  <1>12. AssignmentsMatchPlacements'
    BY <1>8, <1>9 DEF AssignmentsMatchPlacements, Holders
  <1>13. SpecInv'
    BY <1>1, <1>8, Received DEF SpecInv, etcdVars
  <1> QED
    BY <1>6, <1>10, <1>11, <1>12, <1>13, OutOfCall

LEMMA LocalHandleTargetGroupEvent ==
  ASSUME LocalInv, HandleTargetGroupEvent
  PROVE  LocalInv'
  <1> DEFINE tg == Head(eventCh).tg
  <1> USE DEF LocalInv
  <1>1. tg \in TargetGroups /\ tg \in specKeys /\ Receive("tg")
    BY Received, EventType DEF HandleTargetGroupEvent
  <1>2. /\ pc' \in {"idle", "calc"}
        /\ attempt' \in 0 .. Attempts
        /\ UNCHANGED <<desired, loads, leftPtr, rightPtr>>
    BY <1>1, Received, LoopCall DEF HandleTargetGroupEvent
  <1>3. /\ targetGroups' = targetGroups \cup {tg}
        /\ UNCHANGED <<etcdVars, placementVars, dplStatuses, delayedDeaths, delayedRuns, spent>>
    BY DEF HandleTargetGroupEvent
  <1>4. targetGroups' \in SUBSET TargetGroups /\ targetGroups' \subseteq specKeys
    BY <1>1, <1>3 DEF TypeOK, SpecInv
  <1>5. TypeOK'
    BY <1>1, <1>2, <1>3, <1>4, Received DEF TypeOK, etcdVars, placementVars
  <1>6. KnownInv'
    BY <1>3 DEF KnownInv, placementVars
  <1>7. AssignmentsMatchPlacements'
    BY <1>3 DEF AssignmentsMatchPlacements, Holders, placementVars
  <1>8. SpecInv'
    BY <1>1, <1>3, <1>4, Received DEF SpecInv, etcdVars
  <1> QED
    BY <1>2, <1>5, <1>6, <1>7, <1>8, OutOfCall

LEMMA LocalHandleDataPlaneDeath ==
  ASSUME LocalInv, HandleDataPlaneDeath
  PROVE  LocalInv'
  <1> DEFINE death == Head(delayedDeaths)
             old == dplStatuses[death.node]
             new == [State |-> "dead", LastEvent |-> "dead",
                     Timestamp |-> MaxOf(death.timestamp, old.Timestamp)]
  <1> USE DEF LocalInv
  <1>1. death \in Death /\ delayedDeaths' \in Seq(Death)
    BY HeadTail DEF HandleDataPlaneDeath, TypeOK
  <1>2. death.node \in DataPlanes /\ death.timestamp \in Nat
    BY <1>1 DEF Death
  <1>3. old \in Status
    BY <1>2 DEF TypeOK
  <1>4. new \in Status
    BY <1>2, <1>3 DEF Status, MaxOf
  <1>5. \/ UNCHANGED dplStatuses
        \/ dplStatuses' = [dplStatuses EXCEPT ![death.node] = new]
    BY DEF HandleDataPlaneDeath
  <1>6. dplStatuses' \in [DataPlanes -> Status]
    BY <1>2, <1>4, <1>5 DEF TypeOK
  <1>7. /\ pc' \in {"idle", "calc"}
        /\ attempt' \in 0 .. Attempts
        /\ UNCHANGED <<desired, loads, leftPtr, rightPtr>>
    BY LoopCall DEF HandleDataPlaneDeath
  <1>8. UNCHANGED <<etcdVars, placementVars, targetGroups, eventTimestamp, eventCh, delayedRuns, spent>>
    BY DEF HandleDataPlaneDeath
  <1>9. TypeOK'
    BY <1>1, <1>6, <1>7, <1>8 DEF TypeOK, etcdVars, placementVars
  <1>10. KnownInv'
    BY <1>2, <1>5, <1>8 DEF KnownInv, placementVars, TypeOK
  <1>11. AssignmentsMatchPlacements'
    BY <1>8 DEF AssignmentsMatchPlacements, Holders, placementVars
  <1>12. SpecInv'
    BY <1>8 DEF SpecInv, etcdVars
  <1> QED
    BY <1>7, <1>9, <1>10, <1>11, <1>12, OutOfCall

LEMMA LocalEventLoop ==
  ASSUME LocalInv, EventLoop
  PROVE  LocalInv'
  <1> USE DEF LocalInv
  <1>1. CASE HandleDataPlaneDrained
    <2>1. TypeOK'
      BY <1>1, Received DEF HandleDataPlaneDrained, TypeOK, etcdVars, placementVars, callVars
    <2>2. SpecInv'
      BY <1>1, Received DEF HandleDataPlaneDrained, SpecInv, etcdVars
    <2> QED
      BY <1>1, <2>1, <2>2, LocalUntouched DEF HandleDataPlaneDrained, placementVars
  <1>2. CASE RunReconcile \/ ForceReconcile
    <2>1. /\ pc' \in {"idle", "calc"}
          /\ attempt' \in 0 .. Attempts
          /\ UNCHANGED <<desired, loads, leftPtr, rightPtr>>
      BY <1>2, LoopCall DEF RunReconcile, ForceReconcile
    <2>2. UNCHANGED <<etcdVars, placementVars, targetGroups, dplStatuses, eventVars>>
      BY <1>2 DEF RunReconcile, ForceReconcile
    <2>3. /\ delayedRuns' \in Nat
          /\ spent' \in [events : Nat, ticks : Nat, errors : Nat, failovers : Nat]
      <3>1. CASE RunReconcile
        BY <3>1 DEF RunReconcile, TypeOK
      <3>2. CASE ForceReconcile
        <4>1. spent' = [spent EXCEPT !.ticks = @ + 1] /\ delayedRuns' = delayedRuns
          BY <3>2 DEF ForceReconcile
        <4> QED
          BY <4>1, SpentType DEF TypeOK
      <3> QED
        BY <1>2, <3>1, <3>2
    <2>4. TypeOK'
      BY <2>1, <2>2, <2>3 DEF TypeOK, etcdVars, placementVars, eventVars
    <2>5. KnownInv'
      BY <2>2 DEF KnownInv, placementVars
    <2>6. AssignmentsMatchPlacements'
      BY <2>2 DEF AssignmentsMatchPlacements, Holders, placementVars
    <2>7. SpecInv'
      BY <2>2 DEF SpecInv, etcdVars, eventVars
    <2> QED
      BY <2>1, <2>4, <2>5, <2>6, <2>7, OutOfCall
  <1> QED
    BY <1>1, <1>2, LocalReceiveDeath, LocalHandleDataPlaneAlive,
       LocalHandleTargetGroupEvent, LocalHandleDataPlaneDeath DEF EventLoop

\* A call that ends, or starts its next attempt.
LEMMA LocalLeavesCall ==
  ASSUME LocalInv,
         pc' \in {"idle", "calc"}, attempt' \in 0 .. Attempts,
         desired' = NothingDesired, loads' = << >>, leftPtr' = 0, rightPtr' = 0,
         store' \in [DataPlanes -> Placement],
         \A d \in DataPlanes : store'[d].tgs \subseteq specKeys,
         spent' \in [events : Nat, ticks : Nat, errors : Nat, failovers : Nat],
         delayedRuns' \in Nat,
         UNCHANGED <<statusKeys, specKeys, lease, placementVars, targetGroups,
                     dplStatuses, eventVars>>
  PROVE  LocalInv'
  <1> USE DEF LocalInv
  <1>1. TypeOK'
    BY NothingDesiredType DEF TypeOK, placementVars, eventVars
  <1>2. KnownInv'
    BY DEF KnownInv, placementVars
  <1>3. AssignmentsMatchPlacements'
    BY DEF AssignmentsMatchPlacements, Holders, placementVars
  <1>4. SpecInv'
    BY DEF SpecInv, eventVars
  <1> QED
    BY <1>1, <1>2, <1>3, <1>4, OutOfCall

LEMMA Failed ==
  ASSUME LocalInv, AttemptFailed
  PROVE  /\ pc' \in {"idle", "calc"} /\ attempt' \in 0 .. Attempts
         /\ desired' = NothingDesired /\ loads' = << >> /\ leftPtr' = 0 /\ rightPtr' = 0
         /\ delayedRuns' \in Nat
  BY DEF LocalInv, TypeOK, AttemptFailed, FinishCall, Attempts

\* What a transaction writes: placements, made of target groups that exist.
LEMMA Written ==
  ASSUME LocalInv, InCall, NEW pls \in [DataPlanes -> Placement],
         \A d \in DataPlanes : pls[d].tgs \subseteq specKeys
  PROVE  /\ WrittenTo(pls) \in [DataPlanes -> Placement]
         /\ \A d \in DataPlanes : WrittenTo(pls)[d].tgs \subseteq specKeys
  BY DEF LocalInv, TypeOK, SpecInv, DesiredInv, WrittenTo

\* In a call a node is unchanged exactly when its placement stays as it is, so
\* writing the changed ones to the reconciler's own map makes it the desired one.
LEMMA WrittenIsDesired ==
  ASSUME LocalInv, InCall
  PROVE  WrittenTo(placements) = desired
  <1> SUFFICES ASSUME NEW d \in DataPlanes, d \notin Changed
               PROVE  placements[d] = desired[d]
    BY DEF WrittenTo, LocalInv, TypeOK
  <1>1. placements[d] \in Placement /\ desired[d] \in Placement
    BY DEF LocalInv, TypeOK
  <1>2. CASE d \in known
    BY <1>1, <1>2 DEF Changed, LocalInv, DesiredInv, Placement
  <1>3. CASE d \notin known
    BY <1>3 DEF LocalInv, DesiredInv, KnownInv
  <1> QED
    BY <1>2, <1>3

LEMMA LocalCommitSucceeds ==
  ASSUME LocalInv, CommitSucceeds
  PROVE  LocalInv'
  <1> USE DEF LocalInv
  <1>1. InCall
    BY DEF CommitSucceeds, InCall
  <1>2. placements' = desired
    BY <1>1, WrittenIsDesired DEF CommitSucceeds
  <1>3. /\ pc' = "idle" /\ attempt' \in 0 .. Attempts
        /\ desired' = NothingDesired /\ loads' = << >> /\ leftPtr' = 0 /\ rightPtr' = 0
    BY DEF CommitSucceeds, FinishCall, Attempts
  <1>4. UNCHANGED <<statusKeys, specKeys, lease, known, targetGroups, dplStatuses,
                    eventVars, delayedRuns, spent>>
    BY DEF CommitSucceeds
  <1>5. /\ store' \in [DataPlanes -> Placement]
        /\ \A d \in DataPlanes : store'[d].tgs \subseteq specKeys
    BY <1>1, Written DEF CommitSucceeds, TypeOK, SpecInv
  <1>6. \A tg \in TargetGroups : assignments'[tg] = Holders(desired, tg)
    <2> SUFFICES ASSUME NEW tg \in TargetGroups
                 PROVE  AppliedAssignments(tg) = Holders(desired, tg)
      BY DEF CommitSucceeds
    <2>1. \A d \in DataPlanes : d \notin Changed => placements[d] = desired[d]
      BY <1>1, WrittenIsDesired DEF WrittenTo
    <2>2. assignments[tg] = Holders(placements, tg) /\ Changed \subseteq DataPlanes
      BY DEF AssignmentsMatchPlacements, Changed, TypeOK
    <2> QED
      BY <2>1, <2>2 DEF AppliedAssignments, Holders
  <1>7. assignments' \in [TargetGroups -> SUBSET DataPlanes]
    <2>1. assignments' = [tg \in TargetGroups |-> AppliedAssignments(tg)]
      BY DEF CommitSucceeds
    <2> QED
      BY <1>6, <2>1 DEF Holders
  <1>8. TypeOK'
    BY <1>2, <1>3, <1>4, <1>5, <1>7, NothingDesiredType DEF TypeOK, eventVars
  <1>9. KnownInv'
    BY <1>1, <1>2, <1>4 DEF KnownInv, DesiredInv
  <1>10. AssignmentsMatchPlacements'
    BY <1>1, <1>2, <1>4, <1>6 DEF AssignmentsMatchPlacements, Holders, DesiredInv
  <1>11. SpecInv'
    BY <1>4, <1>5 DEF SpecInv, eventVars
  <1> QED
    BY <1>3, <1>8, <1>9, <1>10, <1>11, OutOfCall

LEMMA LocalEndsWithoutCommit ==
  ASSUME LocalInv, NoAliveDataPlanes \/ NoChanges
  PROVE  LocalInv'
  <1>1. FinishCall /\ UNCHANGED <<etcdVars, placementVars, targetGroups, dplStatuses,
                                  eventVars, delayedRuns, spent>>
    BY DEF NoAliveDataPlanes, NoChanges
  <1>2. attempt' \in 0 .. Attempts
    BY <1>1 DEF FinishCall, Attempts
  <1>3. /\ store' \in [DataPlanes -> Placement]
        /\ \A d \in DataPlanes : store'[d].tgs \subseteq specKeys
        /\ spent' \in [events : Nat, ticks : Nat, errors : Nat, failovers : Nat]
        /\ delayedRuns' \in Nat
    BY <1>1 DEF LocalInv, TypeOK, SpecInv, etcdVars
  <1> QED
    BY <1>1, <1>2, <1>3, LocalLeavesCall DEF FinishCall, etcdVars

LEMMA LocalCommitFails ==
  ASSUME LocalInv, CommitRejected \/ CommitError
  PROVE  LocalInv'
  <1> USE DEF LocalInv
  <1>1. InCall /\ AttemptFailed
    BY DEF CommitRejected, CommitError, InCall
  <1>2. UNCHANGED <<statusKeys, specKeys, lease, placementVars, targetGroups,
                    dplStatuses, eventVars>>
    BY DEF CommitRejected, CommitError, etcdVars
  <1>3. store' = store \/ store' = WrittenTo(store)
    BY DEF CommitRejected, CommitError, etcdVars
  <1>4. /\ store' \in [DataPlanes -> Placement]
        /\ \A d \in DataPlanes : store'[d].tgs \subseteq specKeys
    BY <1>1, <1>3, Written DEF TypeOK, SpecInv
  <1>5. spent' \in [events : Nat, ticks : Nat, errors : Nat, failovers : Nat]
    <2>1. CASE CommitRejected
      BY <2>1 DEF CommitRejected, TypeOK
    <2>2. CASE CommitError
      <3>1. spent' = [spent EXCEPT !.errors = @ + 1]
        BY <2>2 DEF CommitError
      <3> QED
        BY <3>1, SpentType DEF TypeOK
    <2> QED
      BY <2>1, <2>2
  <1> QED
    BY <1>1, <1>2, <1>4, <1>5, Failed, LocalLeavesCall

\* A step of a call in progress that changes only the call.
LEMMA LocalInsideCall ==
  ASSUME LocalInv, TypeOK', DesiredInv', LoadsInv',
         UNCHANGED <<etcdVars, placementVars, targetGroups, dplStatuses, eventVars>>
  PROVE  LocalInv'
  <1> USE DEF LocalInv
  <1>1. KnownInv'
    BY DEF KnownInv, placementVars
  <1>2. AssignmentsMatchPlacements'
    BY DEF AssignmentsMatchPlacements, Holders, placementVars
  <1>3. SpecInv'
    BY DEF SpecInv, etcdVars, eventVars
  <1> QED
    BY <1>1, <1>2, <1>3

LEMMA LocalUpdatePlacements ==
  ASSUME LocalInv, UpdatePlacements
  PROVE  LocalInv'
  <1> USE DEF LocalInv
  <1>1. pc = "balance" /\ pc' = "commit"
    BY DEF UpdatePlacements, Balanced
  <1>2. UNCHANGED <<attempt, desired, loads, leftPtr, rightPtr, etcdVars, placementVars,
                    targetGroups, dplStatuses, eventVars, delayedRuns, spent>>
    BY DEF UpdatePlacements
  <1>3. TypeOK'
    BY <1>1, <1>2 DEF TypeOK, etcdVars, placementVars, eventVars
  <1>4. DesiredInv'
    BY <1>1, <1>2 DEF DesiredInv, InCall, placementVars
  <1>5. Alive' = Alive
    BY <1>2 DEF Alive, placementVars
  <1>6. LoadsInv'
    BY <1>1, <1>2, <1>5 DEF LoadsInv, InCall
  <1> QED
    BY <1>2, <1>3, <1>4, <1>6, LocalInsideCall

\* What calculateDesiredLazy makes of one placement.
LEMMA DesiredLazyType ==
  ASSUME LocalInv, NEW d \in DataPlanes, NEW tgs \in SUBSET targetGroups,
         d \notin Alive => tgs = {}
  PROVE  LET new == DesiredLazy(d, tgs)
             cur == placements[d]
         IN /\ new \in Placement
            /\ new.tgs \subseteq targetGroups
            /\ new.version >= cur.version
            /\ new.version = cur.version => new.tgs = cur.tgs
            /\ d \notin known => new = Unplaced
            /\ d \in Alive => new.tgs = cur.tgs \cup tgs
            /\ d \notin Alive => new.tgs = {}
  <1> DEFINE new == DesiredLazy(d, tgs)
             cur == placements[d]
  <1> USE DEF LocalInv
  <1>1. cur \in Placement /\ cur.version \in Nat /\ cur.tgs \in SUBSET TargetGroups
    BY DEF TypeOK, Placement
  <1>2. cur.tgs \subseteq targetGroups
    BY <1>1 DEF AssignmentsMatchPlacements, Holders, TypeOK
  <1>3. targetGroups \subseteq TargetGroups
    BY DEF TypeOK
  <1>4. CASE d \in Alive /\ tgs = {}
    <2>1. new = cur
      BY <1>4 DEF DesiredLazy
    <2>2. d \in known
      BY <1>4 DEF Alive
    <2> QED
      BY <1>1, <1>2, <1>4, <2>1, <2>2
  <1>5. CASE d \in Alive /\ tgs # {}
    <2>1. new = [version |-> cur.version + 1, tgs |-> cur.tgs \cup tgs]
      BY <1>5 DEF DesiredLazy
    <2>2. d \in known
      BY <1>5 DEF Alive
    <2>3. cur.tgs \cup tgs \in SUBSET TargetGroups /\ cur.tgs \cup tgs \subseteq targetGroups
      BY <1>1, <1>2, <1>3
    <2> QED
      BY <1>1, <1>5, <2>1, <2>2, <2>3 DEF Placement
  <1>6. CASE d \notin Alive
    <2>1. new = [version |-> IF cur.tgs = {} THEN cur.version ELSE cur.version + 1,
                 tgs |-> {}]
      BY <1>6 DEF DesiredLazy
    <2>2. d \notin known => cur = Unplaced
      BY DEF KnownInv
    <2> QED
      BY <1>1, <1>6, <2>1, <2>2 DEF Placement, Unplaced
  <1> QED
    BY <1>4, <1>5, <1>6

LEMMA LocalCalculateDesired ==
  ASSUME LocalInv, CalculateDesired
  PROVE  LocalInv'
  <1> USE DEF LocalInv
  <1>1. UNCHANGED <<attempt, etcdVars, placementVars, targetGroups, dplStatuses,
                    eventVars, delayedRuns, spent>>
    BY DEF CalculateDesired
  <1>2. PICK new \in [targetGroups -> SUBSET Alive] :
          desired' = [d \in DataPlanes |->
                        DesiredLazy(d, {tg \in targetGroups : d \in new[tg]})]
    BY DEF CalculateDesired
  <1>3. /\ Alive # {} /\ leftPtr' = 1 /\ rightPtr' = Cardinality(Alive) /\ pc' = "balance"
        /\ loads' \in [1 .. Cardinality(Alive) -> Alive]
        /\ SortedByLoad(loads', desired')
    BY DEF CalculateDesired
  <1>4. Alive' = Alive
    BY <1>1 DEF Alive, placementVars
  <1>5. \A d \in DataPlanes :
          LET tgs == {tg \in targetGroups : d \in new[tg]}
          IN tgs \in SUBSET targetGroups /\ (d \notin Alive => tgs = {})
    BY <1>2
  <1>6. \A d \in DataPlanes :
          /\ desired'[d] \in Placement
          /\ desired'[d].tgs \subseteq targetGroups
          /\ desired'[d].version >= placements[d].version
          /\ desired'[d].version = placements[d].version
               => desired'[d].tgs = placements[d].tgs
          /\ d \notin known => desired'[d] = Unplaced
    <2> TAKE d \in DataPlanes
    <2> DEFINE tgs == {tg \in targetGroups : d \in new[tg]}
    <2>1. tgs \in SUBSET targetGroups /\ (d \notin Alive => tgs = {})
      BY <1>5
    <2>2. desired'[d] = DesiredLazy(d, tgs)
      BY <1>2
    <2> HIDE DEF tgs
    <2> QED
      BY <2>1, <2>2, DesiredLazyType
  <1>7. desired' \in [DataPlanes -> Placement]
    BY <1>2, <1>6
  <1>8. DesiredInv'
    BY <1>1, <1>6 DEF DesiredInv, placementVars
  <1>9. loads' \in Seq(DataPlanes)
    BY <1>3, AliveType
  <1>10. TypeOK'
    <2>1. Cardinality(Alive) \in Nat
      BY AliveType
    <2> QED
      BY <1>1, <1>3, <1>7, <1>9, <2>1 DEF TypeOK, etcdVars, placementVars, eventVars
  <1>11. ASSUME NEW i \in 1 .. Cardinality(Alive), NEW j \in 1 .. Cardinality(Alive), i < j
         PROVE  loads'[i] # loads'[j]
    <2>1. loads'[i] \in DataPlanes /\ loads'[i] \in Nat
      BY <1>3, AliveType, ConstantsAssumption
    <2>2. IsFiniteSet(desired'[loads'[i]].tgs)
      BY <1>7, <2>1, ConstantsAssumption, FS_Subset DEF Placement
    <2>3. Cardinality(desired'[loads'[i]].tgs) \in Nat
      BY <2>2, FS_CardinalityType
    <2>4. DOMAIN loads' = 1 .. Cardinality(Alive)
      BY <1>3
    <2>5. LET a == Cardinality(desired'[loads'[i]].tgs)
              b == Cardinality(desired'[loads'[j]].tgs)
          IN a < b \/ (a = b /\ loads'[i] < loads'[j])
      BY <1>3, <1>11, <2>4 DEF SortedByLoad
    <2> QED
      BY <2>1, <2>3, <2>5
  <1>12. \A i, j \in 1 .. Cardinality(Alive) : i # j => loads'[i] # loads'[j]
    BY <1>11, AliveType
  <1>13. LoadsInv'
    BY <1>3, <1>4, <1>12, AliveType DEF LoadsInv
  <1> QED
    BY <1>1, <1>8, <1>10, <1>13, LocalInsideCall

\* Moving replicas between two nodes: nothing but these two placements changes,
\* and their versions increase.
LEMMA MoveChanges ==
  ASSUME LocalInv, NEW from \in DataPlanes, NEW to \in DataPlanes, from # to,
         NEW tgs \in SUBSET desired[from].tgs, Move(from, to, tgs)
  PROVE  /\ desired' \in [DataPlanes -> Placement]
         /\ desired'[to].tgs = desired[to].tgs \cup tgs
         /\ desired'[from].tgs = desired[from].tgs \ tgs
         /\ desired'[to].version = desired[to].version + 1
         /\ desired'[from].version = desired[from].version + 1
         /\ \A d \in DataPlanes \ {from, to} : desired'[d] = desired[d]
  <1>1. desired \in [DataPlanes -> Placement]
    BY DEF LocalInv, TypeOK
  <1>2. /\ desired[from].tgs \in SUBSET TargetGroups /\ desired[to].tgs \in SUBSET TargetGroups
        /\ desired[from].version \in Nat /\ desired[to].version \in Nat
    BY <1>1 DEF Placement
  <1> DEFINE toPl == [version |-> desired[to].version + 1, tgs |-> desired[to].tgs \cup tgs]
             fromPl == [version |-> desired[from].version + 1, tgs |-> desired[from].tgs \ tgs]
  <1>3. desired' = [desired EXCEPT ![to] = toPl, ![from] = fromPl]
    BY DEF Move
  <1>4. toPl \in Placement /\ fromPl \in Placement
    BY <1>2 DEF Placement
  <1>5. desired'[to] = toPl /\ desired'[from] = fromPl
    BY <1>1, <1>3
  <1>6. desired' \in [DataPlanes -> Placement]
    BY <1>1, <1>3, <1>4
  <1>7. \A d \in DataPlanes \ {from, to} : desired'[d] = desired[d]
    BY <1>1, <1>3
  <1> QED
    BY <1>5, <1>6, <1>7

\* One call of generateTgMovement: either nothing moves or a set of target groups
\* that the receiver does not have moves between two different alive nodes.
LEMMA MovementStep ==
  ASSUME LocalInv, GenerateTgMovement
  PROVE  /\ leftPtr' \in Nat /\ rightPtr' \in Nat
         /\ leftPtr' >= 1 /\ rightPtr' <= Cardinality(Alive)
         /\ \/ UNCHANGED desired
            \/ \E from, to \in Alive : \E tgs \in SUBSET (desired[from].tgs \ desired[to].tgs) :
                 from # to /\ Move(from, to, tgs)
  <1> USE DEF LocalInv
  <1> DEFINE n == Cardinality(Alive)
             to == loads[leftPtr]
             from == loads[rightPtr]
  <1>1. InCall
    BY DEF GenerateTgMovement, InCall
  <1>2. n \in Nat
    BY AliveType
  <1>3. leftPtr \in Nat /\ rightPtr \in Nat /\ leftPtr < rightPtr
    BY DEF GenerateTgMovement, TypeOK
  <1>4. leftPtr \in 1 .. n /\ rightPtr \in 1 .. n /\ leftPtr # rightPtr
    BY <1>1, <1>2, <1>3 DEF LoadsInv
  <1>5. to \in Alive /\ from \in Alive /\ from # to
    BY <1>1, <1>4 DEF LoadsInv
  <1>6. /\ leftPtr' = leftPtr \/ leftPtr' = leftPtr + 1
        /\ rightPtr' = rightPtr \/ rightPtr' = rightPtr - 1
    BY DEF GenerateTgMovement
  <1>7. \/ UNCHANGED desired
        \/ \E move : \E tgs \in Movements(from, to, move) : Move(from, to, tgs)
    BY DEF GenerateTgMovement
  <1>8. \A move : Movements(from, to, move) \subseteq SUBSET (desired[from].tgs \ desired[to].tgs)
    BY DEF Movements
  <1> QED
    BY <1>2, <1>4, <1>5, <1>6, <1>7, <1>8

LEMMA LocalGenerateTgMovement ==
  ASSUME LocalInv, GenerateTgMovement
  PROVE  LocalInv'
  <1> USE DEF LocalInv
  <1>1. /\ InCall /\ InCall' /\ pc' = pc
        /\ UNCHANGED <<attempt, loads, etcdVars, placementVars, targetGroups,
                       dplStatuses, eventVars, delayedRuns, spent>>
    BY DEF GenerateTgMovement, InCall
  <1>2. Alive' = Alive
    BY <1>1 DEF Alive, placementVars
  <1>3. desired' \in [DataPlanes -> Placement] /\ DesiredInv'
    <2>1. CASE UNCHANGED desired
      BY <1>1, <2>1 DEF DesiredInv, placementVars, TypeOK
    <2>2. ASSUME NEW from \in Alive, NEW to \in Alive,
                 NEW tgs \in SUBSET (desired[from].tgs \ desired[to].tgs),
                 from # to, Move(from, to, tgs)
          PROVE  desired' \in [DataPlanes -> Placement] /\ DesiredInv'
      <3>1. from \in DataPlanes /\ to \in DataPlanes /\ from \in known /\ to \in known
        BY AliveType
      <3>2. tgs \in SUBSET desired[from].tgs
        OBVIOUS
      <3>3. /\ desired' \in [DataPlanes -> Placement]
            /\ desired'[to].tgs = desired[to].tgs \cup tgs
            /\ desired'[from].tgs = desired[from].tgs \ tgs
            /\ desired'[to].version = desired[to].version + 1
            /\ desired'[from].version = desired[from].version + 1
            /\ \A d \in DataPlanes \ {from, to} : desired'[d] = desired[d]
        BY <2>2, <3>1, <3>2, MoveChanges
      <3>4. \A d \in DataPlanes : desired[d].version \in Nat /\ placements[d].version \in Nat
        BY DEF TypeOK, Placement
      <3>5. \A d \in DataPlanes :
              /\ desired[d].tgs \subseteq targetGroups
              /\ d \notin known => desired[d] = Unplaced
              /\ desired[d].version >= placements[d].version
              /\ desired[d].version = placements[d].version
                   => desired[d].tgs = placements[d].tgs
        BY <1>1 DEF DesiredInv
      <3>6. ASSUME NEW d \in DataPlanes
            PROVE  /\ desired'[d].tgs \subseteq targetGroups
                   /\ d \notin known => desired'[d] = Unplaced
                   /\ desired'[d].version >= placements[d].version
                   /\ desired'[d].version = placements[d].version
                        => desired'[d].tgs = placements[d].tgs
        <4>1. CASE d = to
          BY <3>1, <3>3, <3>4, <3>5, <4>1
        <4>2. CASE d = from
          BY <3>1, <3>3, <3>4, <3>5, <4>2
        <4>3. CASE d \notin {from, to}
          BY <3>3, <3>5, <4>3
        <4> QED
          BY <4>1, <4>2, <4>3
      <3> QED
        BY <1>1, <3>3, <3>6 DEF DesiredInv, placementVars
    <2> QED
      BY <2>1, <2>2, MovementStep
  <1>4. TypeOK'
    BY <1>1, <1>3, MovementStep DEF TypeOK, etcdVars, placementVars, eventVars
  <1>5. LoadsInv'
    BY <1>1, <1>2, MovementStep DEF LoadsInv
  <1> QED
    BY <1>1, <1>3, <1>4, <1>5, LocalInsideCall

LEMMA LocalStutter ==
  ASSUME LocalInv, UNCHANGED vars
  PROVE  LocalInv'
  <1>1. TypeOK'
    BY DEF LocalInv, TypeOK, vars, etcdVars, placementVars, eventVars, callVars
  <1>2. SpecInv'
    BY DEF LocalInv, SpecInv, vars, etcdVars, eventVars
  <1> QED
    BY <1>1, <1>2, LocalUntouched DEF vars, placementVars

LEMMA LocalNext == LocalInv /\ [Next]_vars => LocalInv'
  BY LocalStutter, LocalEnvironment, LocalBecomeLeader, LocalEventLoop,
     LocalEndsWithoutCommit, LocalCalculateDesired, LocalGenerateTgMovement,
     LocalUpdatePlacements, LocalCommitSucceeds, LocalCommitFails DEF Next, Call

LEMMA LocalAlways == Spec => []LocalInv
  BY LocalInit, LocalNext, PTL DEF Spec

\* Every variable keeps its type: no step of the loop, of a call or of a failover
\* leaves the domains of the Go variables.
THEOREM TypeCorrect == Spec => []TypeOK
  <1>1. LocalInv => TypeOK
    BY DEF LocalInv
  <1> QED
    BY <1>1, LocalAlways, PTL

\* Assignments stays the inverse of placements, whatever commits fail and whether
\* or not etcd applied them: applyLocal never writes to the map of a target group
\* that has no entry.
THEOREM AssignmentsAlwaysMatch == Spec => []AssignmentsMatchPlacements
  <1>1. LocalInv => AssignmentsMatchPlacements
    BY DEF LocalInv
  <1> QED
    BY <1>1, LocalAlways, PTL

----------------------------------------------------------------------------
\* The statuses follow etcd.

About(e, d) == e.type # "tg" /\ e.node = d
Silent(q, d) == \A i \in DOMAIN q : ~About(q[i], d)
EventOf(key) == IF key = "none" THEN "dead" ELSE key

\* The newest event about a node that is on its way reports its key.
Reported(q, key, d) ==
  \A i \in DOMAIN q :
    (About(q[i], d) /\ (\A j \in DOMAIN q : i < j => ~About(q[j], d)))
      => q[i].type = EventOf(key)

CancelledBy(status, death) == status.LastEvent = "alive" /\ status.Timestamp > death.timestamp

\* When none is on its way: a registered node is alive and its delayed deaths
\* are all cancelled, and one without a key is not alive, or is to die.
Followed(key, status, deaths, d) ==
  /\ key = "alive" =>
       /\ status.State = "alive"
       /\ \A i \in DOMAIN deaths : deaths[i].node = d => CancelledBy(status, deaths[i])
  /\ (key = "none" /\ status.State = "alive") =>
       \E i \in DOMAIN deaths : deaths[i].node = d /\ ~CancelledBy(status, deaths[i])

\* No timestamp is ahead of the counter, so a later event is later than all.
TimeInv ==
  /\ \A d \in DataPlanes : dplStatuses[d].Timestamp <= eventTimestamp
  /\ \A i \in DOMAIN delayedDeaths : delayedDeaths[i].timestamp <= eventTimestamp

FollowsEtcd(d) ==
  /\ Reported(eventCh, statusKeys[d], d)
  /\ Silent(eventCh, d) => Followed(statusKeys[d], dplStatuses[d], delayedDeaths, d)

FollowInv == TimeInv /\ \A d \in DataPlanes : FollowsEtcd(d)

LEMMA ReportedAppended ==
  ASSUME NEW q \in Seq(Event), NEW e \in Event, NEW key, NEW d
  PROVE  /\ (About(e, d) /\ e.type = EventOf(key)) => Reported(Append(q, e), key, d)
         /\ About(e, d) => ~Silent(Append(q, e), d)
         /\ (~About(e, d) /\ Reported(q, key, d)) => Reported(Append(q, e), key, d)
         /\ Silent(Append(q, e), d) => Silent(q, d)
  <1> DEFINE n == Append(q, e)
  <1>1. /\ Len(q) \in Nat /\ DOMAIN q = 1 .. Len(q) /\ DOMAIN n = 1 .. (Len(q) + 1)
        /\ n[Len(q) + 1] = e
    OBVIOUS
  <1>2. \A i \in DOMAIN q : n[i] = q[i]
    OBVIOUS
  <1> HIDE DEF n
  <1>3. ASSUME About(e, d), e.type = EventOf(key)
        PROVE  Reported(n, key, d)
    <2> SUFFICES ASSUME NEW i \in DOMAIN n, \A j \in DOMAIN n : i < j => ~About(n[j], d)
                 PROVE  n[i].type = EventOf(key)
      BY DEF Reported
    <2>1. Len(q) + 1 \in DOMAIN n /\ ~(i < Len(q) + 1)
      BY <1>1, <1>3
    <2>2. i = Len(q) + 1
      BY <1>1, <2>1
    <2> QED
      BY <1>1, <1>3, <2>2
  <1>4. ASSUME About(e, d)
        PROVE  ~Silent(n, d)
    <2>1. Len(q) + 1 \in DOMAIN n
      BY <1>1
    <2> QED
      BY <1>1, <1>4, <2>1 DEF Silent
  <1>5. ASSUME ~About(e, d), Reported(q, key, d)
        PROVE  Reported(n, key, d)
    <2> SUFFICES ASSUME NEW i \in DOMAIN n, About(n[i], d), \A j \in DOMAIN n : i < j => ~About(n[j], d)
                 PROVE  n[i].type = EventOf(key)
      BY DEF Reported
    <2>1. i \in DOMAIN q
      BY <1>1, <1>5
    <2>2. \A j \in DOMAIN q : j \in DOMAIN n /\ n[j] = q[j]
      BY <1>1, <1>2
    <2> QED
      BY <1>5, <2>1, <2>2 DEF Reported
  <1>6. ASSUME Silent(n, d)
        PROVE  Silent(q, d)
    BY <1>1, <1>2, <1>6 DEF Silent
  <1> QED
    BY <1>3, <1>4, <1>5, <1>6 DEF n

LEMMA ReportedReceived ==
  ASSUME NEW q \in Seq(Event), q # << >>, NEW key, NEW d, Reported(q, key, d)
  PROVE  /\ Reported(Tail(q), key, d)
         /\ Silent(Tail(q), d) =>
              \/ ~About(Head(q), d) /\ Silent(q, d)
              \/ About(Head(q), d) /\ Head(q).type = EventOf(key)
  <1> DEFINE n == Tail(q)
  <1>1. /\ Len(q) \in Nat /\ Len(q) >= 1 /\ DOMAIN q = 1 .. Len(q) /\ DOMAIN n = 1 .. (Len(q) - 1)
        /\ Head(q) = q[1]
    OBVIOUS
  <1>2. \A i \in DOMAIN n : n[i] = q[i + 1]
    OBVIOUS
  <1> HIDE DEF n
  <1>3. \A i \in DOMAIN n : i \in Nat /\ i + 1 \in DOMAIN q
    BY <1>1
  <1>4. \A j \in DOMAIN q : j = 1 \/ (j - 1 \in DOMAIN n /\ q[j] = n[j - 1])
    <2> SUFFICES ASSUME NEW j \in DOMAIN q, j # 1
                 PROVE  j - 1 \in DOMAIN n /\ q[j] = n[j - 1]
      OBVIOUS
    <2>1. j - 1 \in DOMAIN n /\ (j - 1) + 1 = j
      BY <1>1
    <2> QED
      BY <1>2, <2>1
  <1>5. Reported(n, key, d)
    <2> SUFFICES ASSUME NEW i \in DOMAIN n, About(n[i], d), \A j \in DOMAIN n : i < j => ~About(n[j], d)
                 PROVE  n[i].type = EventOf(key)
      BY DEF Reported
    <2>1. ASSUME NEW j \in DOMAIN q, i + 1 < j
          PROVE  ~About(q[j], d)
      <3>1. i \in Nat /\ j \in Nat /\ j # 1
        BY <1>1, <2>1
      <3>2. j - 1 \in DOMAIN n /\ q[j] = n[j - 1]
        BY <1>4, <3>1
      <3>3. i < j - 1
        BY <2>1, <3>1
      <3> QED
        BY <3>2, <3>3
    <2>2. i + 1 \in DOMAIN q /\ About(q[i + 1], d)
      BY <1>2, <1>3
    <2>3. q[i + 1].type = EventOf(key)
      BY <2>1, <2>2 DEF Reported
    <2> QED
      BY <1>2, <2>3
  <1>6. ASSUME Silent(n, d), ~About(Head(q), d)
        PROVE  Silent(q, d)
    BY <1>1, <1>4, <1>6 DEF Silent
  <1>7. ASSUME Silent(n, d), About(Head(q), d)
        PROVE  Head(q).type = EventOf(key)
    <2>1. 1 \in DOMAIN q /\ About(q[1], d)
      BY <1>1, <1>7
    <2>2. \A j \in DOMAIN q : 1 < j => ~About(q[j], d)
      BY <1>4, <1>7 DEF Silent
    <2> QED
      BY <1>1, <2>1, <2>2 DEF Reported
  <1> QED
    BY <1>5, <1>6, <1>7 DEF n

LEMMA FollowKept ==
  ASSUME FollowInv, UNCHANGED <<statusKeys, dplStatuses, eventTimestamp, eventCh, delayedDeaths>>
  PROVE  FollowInv'
  BY DEF FollowInv, TimeInv, FollowsEtcd

\* A write of a status key and the event that reports it.
LEMMA FollowWritten ==
  ASSUME TypeOK, FollowInv, NEW d \in DataPlanes, NEW key \in {"none", "alive", "drained"},
         NEW e \in Event, e.type = EventOf(key), e.node = d,
         statusKeys' = [statusKeys EXCEPT ![d] = key], eventCh' = Append(eventCh, e),
         UNCHANGED <<dplStatuses, eventTimestamp, delayedDeaths>>
  PROVE  FollowInv'
  <1>0. eventCh \in Seq(Event) /\ statusKeys \in [DataPlanes -> {"none", "alive", "drained"}]
    BY DEF TypeOK
  <1>1. TimeInv'
    BY DEF FollowInv, TimeInv
  <1>2. ASSUME NEW x \in DataPlanes
        PROVE  /\ Reported(eventCh', statusKeys'[x], x)
               /\ Silent(eventCh', x) => Followed(statusKeys'[x], dplStatuses'[x], delayedDeaths', x)
    <2>1. FollowsEtcd(x)
      BY DEF FollowInv
    <2>2. CASE x = d
      <3>1. statusKeys'[x] = key /\ About(e, x)
        BY <1>0, <2>2 DEF About, EventOf
      <3> QED
        BY <1>0, <3>1, ReportedAppended
    <2>3. CASE x # d
      <3>1. statusKeys'[x] = statusKeys[x] /\ ~About(e, x)
        BY <1>0, <2>3 DEF About
      <3> QED
        BY <1>0, <2>1, <3>1, ReportedAppended DEF FollowsEtcd
    <2> QED
      BY <2>2, <2>3
  <1>3. \A x \in DataPlanes : FollowsEtcd(x)'
    BY <1>2 DEF FollowsEtcd
  <1> QED
    BY <1>1, <1>3 DEF FollowInv

LEMMA FollowEnvironment ==
  ASSUME TypeOK, FollowInv, Environment
  PROVE  FollowInv'
  <1>1. ASSUME NEW d \in DataPlanes, NEW value \in {"alive", "drained"}, PutStatus(d, value)
        PROVE  FollowInv'
    <2> DEFINE e == [type |-> value, node |-> d]
    <2>1. e \in Event /\ e.node = d /\ e.type = EventOf(value)
      BY DEF Event, EventOf
    <2>2. /\ statusKeys' = [statusKeys EXCEPT ![d] = value] /\ eventCh' = Append(eventCh, e)
          /\ UNCHANGED <<dplStatuses, eventTimestamp, delayedDeaths>>
      BY <1>1 DEF PutStatus, Notify
    <2> HIDE DEF e
    <2> QED
      BY <2>1, <2>2, FollowWritten
  <1>2. ASSUME NEW d \in DataPlanes, ExpireStatus(d)
        PROVE  FollowInv'
    <2> DEFINE e == [type |-> "dead", node |-> d]
    <2>1. e \in Event /\ e.node = d /\ e.type = EventOf("none")
      BY DEF Event, EventOf
    <2>2. /\ statusKeys' = [statusKeys EXCEPT ![d] = "none"] /\ eventCh' = Append(eventCh, e)
          /\ UNCHANGED <<dplStatuses, eventTimestamp, delayedDeaths>>
      BY <1>2 DEF ExpireStatus, Notify
    <2> HIDE DEF e
    <2> QED
      BY <2>1, <2>2, FollowWritten
  <1>3. ASSUME NEW tg \in TargetGroups, PutTargetGroup(tg)
        PROVE  FollowInv'
    <2> DEFINE e == [type |-> "tg", tg |-> tg]
    <2>1. e \in Event /\ \A x : ~About(e, x)
      BY DEF Event, About
    <2>2. /\ eventCh' = Append(eventCh, e) /\ eventCh \in Seq(Event)
          /\ UNCHANGED <<statusKeys, dplStatuses, eventTimestamp, delayedDeaths>>
      BY <1>3 DEF PutTargetGroup, Notify, TypeOK
    <2> HIDE DEF e
    <2>3. ASSUME NEW x \in DataPlanes
          PROVE  /\ Reported(eventCh', statusKeys[x], x)
                 /\ Silent(eventCh', x) => Followed(statusKeys[x], dplStatuses[x], delayedDeaths, x)
      <3>1. FollowsEtcd(x)
        BY DEF FollowInv
      <3> QED
        BY <2>1, <2>2, <3>1, ReportedAppended DEF FollowsEtcd
    <2>4. \A x \in DataPlanes : FollowsEtcd(x)'
      BY <2>2, <2>3 DEF FollowsEtcd
    <2> QED
      BY <2>2, <2>4 DEF FollowInv, TimeInv
  <1>4. CASE LoseLease
    BY <1>4, FollowKept DEF LoseLease, eventVars
  <1> QED
    BY <1>1, <1>2, <1>3, <1>4 DEF Environment

\* The initial sync of a leader, which may hear of a death once more.
LEMMA FollowSynced ==
  ASSUME NEW keys \in [DataPlanes -> {"none", "alive", "drained"}], NEW q \in ReplayedEvents, statusKeys = keys,
         NEW d \in DataPlanes
  PROVE  /\ Reported(q, keys[d], d)
         /\ Followed(keys[d], SyncedStatus(d), << >>, d)
         /\ SyncedStatus(d).Timestamp = 0
  <1>1. Reported(q, keys[d], d)
    <2>1. CASE q = << >>
      BY <2>1 DEF Reported
    <2>2. ASSUME NEW e \in DataPlanes, statusKeys[e] = "none", q = <<[type |-> "dead", node |-> e]>>
          PROVE  Reported(q, keys[d], d)
      <3>1. \A i \in DOMAIN q : q[i] = [type |-> "dead", node |-> e]
        BY <2>2
      <3>2. \A i \in DOMAIN q : q[i].type = "dead" /\ q[i].node = e
        BY <3>1
      <3> QED
        BY <2>2, <3>2 DEF Reported, About, EventOf
    <2> QED
      BY <2>1, <2>2 DEF ReplayedEvents
  <1>2. /\ SyncedStatus(d).Timestamp = 0
        /\ keys[d] = "alive" => SyncedStatus(d).State = "alive"
        /\ keys[d] = "none" => SyncedStatus(d).State # "alive"
    BY DEF SyncedStatus
  <1>3. DOMAIN << >> = {}
    OBVIOUS
  <1>4. Followed(keys[d], SyncedStatus(d), << >>, d)
    BY <1>2, <1>3 DEF Followed
  <1> QED
    BY <1>1, <1>2, <1>4

LEMMA FollowInit == Init => FollowInv
  <1> SUFFICES ASSUME Init
               PROVE  FollowInv
    OBVIOUS
  <1>1. /\ statusKeys \in [DataPlanes -> {"none", "alive", "drained"}] /\ eventCh \in ReplayedEvents
        /\ dplStatuses = [d \in DataPlanes |-> SyncedStatus(d)]
        /\ delayedDeaths = << >> /\ eventTimestamp = 1
    BY DEF Init
  <1>2. \A d \in DataPlanes : dplStatuses[d] = SyncedStatus(d)
    BY <1>1
  <1>3. \A d \in DataPlanes : FollowsEtcd(d) /\ dplStatuses[d].Timestamp = 0
    BY <1>1, <1>2, FollowSynced DEF FollowsEtcd
  <1>4. TimeInv
    BY <1>1, <1>3 DEF TimeInv
  <1> QED
    BY <1>3, <1>4 DEF FollowInv

LEMMA FollowBecomeLeader ==
  ASSUME TypeOK, FollowInv, BecomeLeader
  PROVE  FollowInv'
  <1>1. /\ statusKeys \in [DataPlanes -> {"none", "alive", "drained"}] /\ eventCh' \in ReplayedEvents
        /\ dplStatuses' = [d \in DataPlanes |-> SyncedStatus(d)]
        /\ delayedDeaths' = << >> /\ eventTimestamp' = 1 /\ UNCHANGED statusKeys
    BY DEF BecomeLeader, TypeOK
  <1>2. \A d \in DataPlanes : dplStatuses'[d] = SyncedStatus(d)
    BY <1>1
  <1>3. ASSUME NEW d \in DataPlanes
        PROVE  /\ Reported(eventCh', statusKeys'[d], d)
               /\ Followed(statusKeys'[d], dplStatuses'[d], delayedDeaths', d)
               /\ dplStatuses'[d].Timestamp = 0
    BY <1>1, <1>2, FollowSynced
  <1>4. \A d \in DataPlanes : FollowsEtcd(d)'
    BY <1>3 DEF FollowsEtcd
  <1>5. TimeInv'
    BY <1>1, <1>3 DEF TimeInv
  <1> QED
    BY <1>4, <1>5 DEF FollowInv

----------------------------------------------------------------------------
LEMMA StatusTimes ==
  ASSUME TypeOK
  PROVE  /\ eventTimestamp \in Nat /\ dplStatuses \in [DataPlanes -> Status]
         /\ \A d \in DataPlanes : dplStatuses[d].Timestamp \in Nat
         /\ eventCh \in Seq(Event) /\ delayedDeaths \in Seq(Death)
         /\ \A i \in DOMAIN delayedDeaths : delayedDeaths[i].timestamp \in Nat /\ delayedDeaths[i].node \in DataPlanes
  <1>1. eventTimestamp \in Nat /\ dplStatuses \in [DataPlanes -> Status] /\ eventCh \in Seq(Event) /\ delayedDeaths \in Seq(Death)
    BY DEF TypeOK
  <1>2. \A d \in DataPlanes : dplStatuses[d].Timestamp \in Nat
    BY <1>1 DEF Status
  <1>3. \A i \in DOMAIN delayedDeaths : delayedDeaths[i] \in Death
    BY <1>1
  <1>4. \A i \in DOMAIN delayedDeaths : delayedDeaths[i].timestamp \in Nat /\ delayedDeaths[i].node \in DataPlanes
    BY <1>3 DEF Death
  <1> QED
    BY <1>1, <1>2, <1>4

\* An event is received: the nodes it is not about see nothing.
LEMMA FollowReceived ==
  ASSUME TypeOK, FollowInv, NEW type, Receive(type), UNCHANGED statusKeys, NEW x \in DataPlanes,
         (/\ ~About(Head(eventCh), x)
          /\ Followed(statusKeys[x], dplStatuses[x], delayedDeaths, x))
           => Followed(statusKeys[x], dplStatuses'[x], delayedDeaths', x),
         (/\ About(Head(eventCh), x)
          /\ Head(eventCh).type = EventOf(statusKeys[x]))
           => Followed(statusKeys[x], dplStatuses'[x], delayedDeaths', x)
  PROVE  FollowsEtcd(x)'
  <1>1. eventCh \in Seq(Event) /\ eventCh # << >> /\ eventCh' = Tail(eventCh)
    BY DEF Receive, TypeOK
  <1>2. FollowsEtcd(x)
    BY DEF FollowInv
  <1>3. Reported(eventCh', statusKeys[x], x)
    BY <1>1, <1>2, ReportedReceived DEF FollowsEtcd
  <1>4. Silent(eventCh', x) =>
              \/ ~About(Head(eventCh), x) /\ Silent(eventCh, x)
              \/ About(Head(eventCh), x) /\ Head(eventCh).type = EventOf(statusKeys[x])
    BY <1>1, <1>2, ReportedReceived DEF FollowsEtcd
  <1>5. Silent(eventCh', x) => Followed(statusKeys[x], dplStatuses'[x], delayedDeaths', x)
    BY <1>2, <1>4 DEF FollowsEtcd
  <1> QED
    BY <1>3, <1>5 DEF FollowsEtcd

LEMMA FollowReceiveDeath ==
  ASSUME TypeOK, FollowInv, ReceiveDeath
  PROVE  FollowInv'
  <1> DEFINE h == Head(eventCh)
             death == [node |-> h.node, timestamp |-> eventTimestamp + 1]
             n == Len(delayedDeaths) + 1
  <1>1. /\ Receive("dead") /\ h.type = "dead" /\ eventTimestamp' = eventTimestamp + 1
        /\ delayedDeaths' = Append(delayedDeaths, death) /\ UNCHANGED <<statusKeys, dplStatuses>>
    BY DEF ReceiveDeath, Receive, etcdVars
  <1>2. death.node = h.node /\ death.timestamp = eventTimestamp + 1
    OBVIOUS
  <1> HIDE DEF h, death
  <1>3. /\ Len(delayedDeaths) \in Nat /\ DOMAIN delayedDeaths = 1 .. Len(delayedDeaths)
        /\ DOMAIN delayedDeaths' = 1 .. n /\ delayedDeaths'[n] = death
        /\ \A i \in DOMAIN delayedDeaths : delayedDeaths'[i] = delayedDeaths[i]
    BY <1>1, StatusTimes
  <1>4. TimeInv
    BY DEF FollowInv
  <1>5. TimeInv'
    <2>1. \A d \in DataPlanes : dplStatuses'[d].Timestamp <= eventTimestamp'
      BY <1>1, <1>4, StatusTimes DEF TimeInv
    <2>2. ASSUME NEW i \in DOMAIN delayedDeaths'
          PROVE  delayedDeaths'[i].timestamp <= eventTimestamp'
      <3>1. CASE i = n
        BY <1>1, <1>2, <1>3, <3>1, StatusTimes
      <3>2. CASE i # n
        <4>1. i \in DOMAIN delayedDeaths
          BY <1>3, <3>2
        <4> QED
          BY <1>1, <1>3, <1>4, <4>1, StatusTimes DEF TimeInv
      <3> QED
        BY <3>1, <3>2
    <2> QED
      BY <2>1, <2>2 DEF TimeInv
  <1>6. ASSUME NEW x \in DataPlanes
        PROVE  FollowsEtcd(x)'
    <2>1. ASSUME ~About(h, x), Followed(statusKeys[x], dplStatuses[x], delayedDeaths, x)
          PROVE  Followed(statusKeys[x], dplStatuses'[x], delayedDeaths', x)
      <3>1. delayedDeaths'[n].node # x
        BY <1>1, <1>2, <1>3, <2>1 DEF About
      <3>2. \A i \in DOMAIN delayedDeaths' : delayedDeaths'[i].node = x => i \in DOMAIN delayedDeaths
        BY <1>3, <3>1
      <3>3. \A i \in DOMAIN delayedDeaths : i \in DOMAIN delayedDeaths' /\ delayedDeaths'[i] = delayedDeaths[i]
        BY <1>3
      <3> QED
        BY <1>1, <2>1, <3>2, <3>3 DEF Followed
    <2>2. ASSUME About(h, x), h.type = EventOf(statusKeys[x])
          PROVE  Followed(statusKeys[x], dplStatuses'[x], delayedDeaths', x)
      <3>1. statusKeys[x] # "alive"
        BY <1>1, <2>2 DEF EventOf
      <3>2. n \in DOMAIN delayedDeaths' /\ delayedDeaths'[n].node = x
        BY <1>2, <1>3, <2>2 DEF About
      <3>3. ~(dplStatuses[x].Timestamp > delayedDeaths'[n].timestamp)
        BY <1>2, <1>3, <1>4, StatusTimes DEF TimeInv
      <3> QED
        BY <1>1, <3>1, <3>2, <3>3 DEF Followed, CancelledBy
    <2> QED
      BY <1>1, <2>1, <2>2, FollowReceived DEF h
  <1> QED
    BY <1>5, <1>6 DEF FollowInv

LEMMA FollowAlive ==
  ASSUME TypeOK, FollowInv, HandleDataPlaneAlive
  PROVE  FollowInv'
  <1> DEFINE h == Head(eventCh)
             d == h.node
             status == [State |-> "alive", LastEvent |-> "alive",
                        Timestamp |-> MaxOf(eventTimestamp + 1, dplStatuses[d].Timestamp)]
  <1>1. /\ Receive("alive") /\ h.type = "alive" /\ eventTimestamp' = eventTimestamp + 1
        /\ dplStatuses' = [dplStatuses EXCEPT ![d] = status] /\ UNCHANGED <<statusKeys, delayedDeaths>>
    BY DEF HandleDataPlaneAlive, Receive, etcdVars
  <1>2. d \in DataPlanes
    <2>1. h \in Event
      BY HeadTail DEF HandleDataPlaneAlive, Receive, TypeOK
    <2> QED
      BY <1>1, <2>1, EventType
  <1>3. TimeInv
    BY DEF FollowInv
  <1>4. status.State = "alive" /\ status.LastEvent = "alive" /\ status.Timestamp = eventTimestamp + 1
    BY <1>2, <1>3, StatusTimes DEF TimeInv, MaxOf
  <1> HIDE DEF h, d, status
  <1>5. dplStatuses'[d] = status /\ \A x \in DataPlanes : x # d => dplStatuses'[x] = dplStatuses[x]
    BY <1>1, <1>2, StatusTimes
  <1>6. TimeInv'
    <2>1. ASSUME NEW x \in DataPlanes
          PROVE  dplStatuses'[x].Timestamp <= eventTimestamp'
      <3>1. CASE x = d
        BY <1>1, <1>4, <1>5, <3>1, StatusTimes
      <3>2. CASE x # d
        BY <1>1, <1>3, <1>5, <3>2, StatusTimes DEF TimeInv
      <3> QED
        BY <3>1, <3>2
    <2>2. \A i \in DOMAIN delayedDeaths : delayedDeaths[i].timestamp <= eventTimestamp'
      BY <1>1, <1>3, StatusTimes DEF TimeInv
    <2> QED
      BY <1>1, <2>1, <2>2 DEF TimeInv
  <1>7. ASSUME NEW x \in DataPlanes
        PROVE  FollowsEtcd(x)'
    <2>1. ASSUME ~About(h, x), Followed(statusKeys[x], dplStatuses[x], delayedDeaths, x)
          PROVE  Followed(statusKeys[x], dplStatuses'[x], delayedDeaths', x)
      <3>1. x # d
        BY <1>1, <2>1 DEF About, d
      <3> QED
        BY <1>1, <1>5, <2>1, <3>1
    <2>2. ASSUME About(h, x), h.type = EventOf(statusKeys[x])
          PROVE  Followed(statusKeys[x], dplStatuses'[x], delayedDeaths', x)
      <3>1. dplStatuses'[x] = status
        BY <1>5, <2>2 DEF About, d
      <3>2. statusKeys[x] # "none"
        BY <1>1, <2>2 DEF EventOf
      <3>3. \A i \in DOMAIN delayedDeaths : CancelledBy(status, delayedDeaths[i])
        BY <1>3, <1>4, StatusTimes DEF TimeInv, CancelledBy
      <3> QED
        BY <1>1, <1>4, <3>1, <3>2, <3>3 DEF Followed
    <2> QED
      BY <1>1, <2>1, <2>2, FollowReceived DEF h
  <1> QED
    BY <1>6, <1>7 DEF FollowInv

\* Events that change no status: a drained node, a target group.
LEMMA FollowIgnored ==
  ASSUME TypeOK, FollowInv, NEW type \in {"drained", "tg"}, Receive(type),
         UNCHANGED <<statusKeys, dplStatuses, delayedDeaths>>
  PROVE  FollowInv'
  <1>1. Head(eventCh).type = type /\ eventTimestamp' = eventTimestamp + 1
    BY DEF Receive
  <1>2. TimeInv'
    BY <1>1, StatusTimes DEF FollowInv, TimeInv
  <1>3. ASSUME NEW x \in DataPlanes
        PROVE  FollowsEtcd(x)'
    <2>1. ASSUME About(Head(eventCh), x), Head(eventCh).type = EventOf(statusKeys[x])
          PROVE  Followed(statusKeys[x], dplStatuses'[x], delayedDeaths', x)
      <3>1. statusKeys[x] # "none" /\ statusKeys[x] # "alive"
        BY <1>1, <2>1 DEF EventOf, About
      <3> QED
        BY <3>1 DEF Followed
    <2> QED
      BY <2>1, FollowReceived
  <1> QED
    BY <1>2, <1>3 DEF FollowInv

LEMMA FollowDeath ==
  ASSUME TypeOK, FollowInv, HandleDataPlaneDeath
  PROVE  FollowInv'
  <1> DEFINE death == Head(delayedDeaths)
             d == death.node
             old == dplStatuses[d]
             status == [State |-> "dead", LastEvent |-> "dead", Timestamp |-> MaxOf(death.timestamp, old.Timestamp)]
  <1>1. /\ delayedDeaths # << >> /\ delayedDeaths' = Tail(delayedDeaths)
        /\ UNCHANGED <<statusKeys, eventTimestamp, eventCh>>
        /\ \/ Cancelled(death) /\ UNCHANGED dplStatuses
           \/ ~Cancelled(death) /\ dplStatuses' = [dplStatuses EXCEPT ![d] = status]
    BY DEF HandleDataPlaneDeath, etcdVars
  <1>2. /\ 1 \in DOMAIN delayedDeaths /\ death = delayedDeaths[1]
        /\ \A i \in DOMAIN delayedDeaths' : i + 1 \in DOMAIN delayedDeaths /\ delayedDeaths'[i] = delayedDeaths[i + 1]
    BY <1>1, HeadTail, StatusTimes
  <1>3. ASSUME NEW i \in DOMAIN delayedDeaths, i # 1
        PROVE  i - 1 \in DOMAIN delayedDeaths' /\ delayedDeaths'[i - 1] = delayedDeaths[i]
    <2>1. /\ Len(delayedDeaths) \in Nat /\ DOMAIN delayedDeaths = 1 .. Len(delayedDeaths)
          /\ DOMAIN delayedDeaths' = 1 .. (Len(delayedDeaths) - 1)
      BY <1>1, StatusTimes
    <2>2. i - 1 \in DOMAIN delayedDeaths' /\ (i - 1) + 1 = i
      BY <1>3, <2>1
    <2> QED
      BY <1>2, <2>2
  <1>4. d \in DataPlanes /\ death.timestamp \in Nat /\ old.Timestamp \in Nat
    BY <1>2, StatusTimes
  <1>5. TimeInv /\ death.timestamp <= eventTimestamp /\ old.Timestamp <= eventTimestamp /\ eventTimestamp \in Nat
    BY <1>2, <1>4, StatusTimes DEF FollowInv, TimeInv
  <1>6. status.State = "dead" /\ status.Timestamp <= eventTimestamp
    BY <1>4, <1>5 DEF MaxOf
  <1>7. Cancelled(death) <=> CancelledBy(old, death)
    BY DEF Cancelled, CancelledBy
  <1> HIDE DEF death, d, old, status
  <1>8. TimeInv'
    <2>1. \A x \in DataPlanes : dplStatuses'[x].Timestamp <= eventTimestamp
      BY <1>1, <1>4, <1>5, <1>6, StatusTimes DEF TimeInv
    <2>2. \A i \in DOMAIN delayedDeaths' : delayedDeaths'[i].timestamp <= eventTimestamp
      BY <1>2, <1>5 DEF TimeInv
    <2> QED
      BY <1>1, <2>1, <2>2 DEF TimeInv
  <1>9. ASSUME NEW x \in DataPlanes, Followed(statusKeys[x], dplStatuses[x], delayedDeaths, x)
        PROVE  Followed(statusKeys[x], dplStatuses'[x], delayedDeaths', x)
    <2>1. CASE dplStatuses'[x] = dplStatuses[x] /\ (x = d => Cancelled(death))
      <3>1. ASSUME statusKeys[x] = "alive"
            PROVE  /\ dplStatuses[x].State = "alive"
                   /\ \A i \in DOMAIN delayedDeaths' :
                        delayedDeaths'[i].node = x => CancelledBy(dplStatuses[x], delayedDeaths'[i])
        BY <1>2, <1>9, <3>1 DEF Followed
      <3>2. ASSUME statusKeys[x] = "none", dplStatuses[x].State = "alive"
            PROVE  \E i \in DOMAIN delayedDeaths' :
                     delayedDeaths'[i].node = x /\ ~CancelledBy(dplStatuses[x], delayedDeaths'[i])
        <4>1. PICK i \in DOMAIN delayedDeaths :
                delayedDeaths[i].node = x /\ ~CancelledBy(dplStatuses[x], delayedDeaths[i])
          BY <1>9, <3>2 DEF Followed
        <4>2. i # 1
          BY <1>2, <1>7, <2>1, <4>1 DEF d, old
        <4>3. i - 1 \in DOMAIN delayedDeaths' /\ delayedDeaths'[i - 1] = delayedDeaths[i]
          BY <1>3, <4>2
        <4> QED
          BY <4>1, <4>3
      <3> QED
        BY <2>1, <3>1, <3>2 DEF Followed
    <2>2. CASE x = d /\ ~Cancelled(death)
      <3>1. dplStatuses'[x].State = "dead"
        BY <1>1, <1>4, <1>6, <2>2, StatusTimes
      <3>2. statusKeys[x] # "alive"
        BY <1>2, <1>7, <1>9, <2>2 DEF Followed, d, old
      <3> QED
        BY <3>1, <3>2 DEF Followed
    <2> QED
      BY <1>1, <1>4, <2>1, <2>2, StatusTimes
  <1>10. \A x \in DataPlanes : FollowsEtcd(x)'
    BY <1>1, <1>9 DEF FollowInv, FollowsEtcd
  <1> QED
    BY <1>8, <1>10 DEF FollowInv

LEMMA FollowNext == TypeOK /\ FollowInv /\ [Next]_vars => FollowInv'
  <1> SUFFICES ASSUME TypeOK, FollowInv, [Next]_vars
               PROVE  FollowInv'
    OBVIOUS
  <1>1. CASE HandleDataPlaneDrained
    BY <1>1, FollowIgnored DEF HandleDataPlaneDrained, etcdVars
  <1>2. CASE HandleTargetGroupEvent
    BY <1>2, FollowIgnored DEF HandleTargetGroupEvent, etcdVars
  <1>3. CASE RunReconcile \/ ForceReconcile
    BY <1>3, FollowKept DEF RunReconcile, ForceReconcile, etcdVars, eventVars
  <1>4. CASE Call
    <2>1. UNCHANGED <<statusKeys, dplStatuses, eventVars>>
      BY <1>4 DEF Call, NoAliveDataPlanes, CalculateDesired, GenerateTgMovement, NoChanges, UpdatePlacements,
                  CommitSucceeds, CommitRejected, CommitError, etcdVars
    <2> QED
      BY <2>1, FollowKept DEF eventVars
  <1>5. CASE UNCHANGED vars
    BY <1>5, FollowKept DEF vars, etcdVars, eventVars
  <1> QED
    BY <1>1, <1>2, <1>3, <1>4, <1>5, FollowEnvironment, FollowBecomeLeader, FollowReceiveDeath, FollowAlive, FollowDeath
       DEF Next, EventLoop

\* A node whose status events have all been handled is believed alive exactly
\* when its key exists: the delayed death of a node that came back is cancelled,
\* and no death is forgotten, also by a leader that hears of it once more.
THEOREM StatusesAlwaysFollow == Spec => []StatusesFollowEtcd
  <1>1. Spec => []FollowInv
    BY FollowInit, FollowNext, TypeCorrect, PTL DEF Spec
  <1>2. FollowInv => StatusesFollowEtcd
    <2> SUFFICES ASSUME FollowInv, NEW d \in DataPlanes, Silent(eventCh, d)
                 PROVE  /\ statusKeys[d] = "alive" => dplStatuses[d].State = "alive"
                        /\ (statusKeys[d] = "none" /\ \A i \in DOMAIN delayedDeaths : delayedDeaths[i].node # d)
                             => dplStatuses[d].State # "alive"
      BY DEF StatusesFollowEtcd, Silent, About
    <2>1. Followed(statusKeys[d], dplStatuses[d], delayedDeaths, d)
      BY DEF FollowInv, FollowsEtcd
    <2> QED
      BY <2>1 DEF Followed
  <1> QED
    BY <1>1, <1>2, PTL
=============================================================================
