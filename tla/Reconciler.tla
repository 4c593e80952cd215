----------------------------- MODULE Reconciler -----------------------------
(***************************************************************************)
(* The placement reconciler of the control plane: the single goroutine     *)
(* that decides which data-plane nodes serve which target groups and       *)
(* writes the decision to etcd (control-plane/internal/reconciler and      *)
(* control-plane/internal/etcd/reconciler.go).                             *)
(*                                                                         *)
(* The goroutine takes one event at a time.  A call of reconcile() is not  *)
(* atomic: it computes a desired placement, balances it pair by pair and   *)
(* commits it with an etcd transaction that may fail and be retried, while *)
(* agents register and expire, target groups are created and the leader    *)
(* lease can be lost.  Go's random map iteration order is the choice of    *)
(* which replicas are added and which target groups are moved.             *)
(*                                                                         *)
(* Times are abstracted: a delayed event may fire at any moment, deaths in *)
(* the order in which they were delayed (they all wait the same time).     *)
(***************************************************************************)
EXTENDS Integers, Sequences, FiniteSets

CONSTANTS
  DataPlanes,         \* node ids; numbers, because loads are sorted by id too
  TargetGroups,       \* target group ids
  ReplicationFactor,  \* targetGroupsReplicationFactor
  AmbiguousCommits,   \* may a transaction be applied and still return an error?
  MaxEvents,          \* bound: etcd writes that the watchers report
  MaxTicks,           \* bound: forced reconciliations
  MaxTxnErrors,       \* bound: failed calls of etcd
  MaxFailovers        \* bound: losses of the leader lease

ASSUME ConstantsAssumption ==
  /\ DataPlanes \subseteq Nat
  /\ IsFiniteSet(DataPlanes)
  /\ IsFiniteSet(TargetGroups)
  /\ ReplicationFactor \in Nat
  /\ AmbiguousCommits \in BOOLEAN
  /\ MaxEvents \in Nat
  /\ MaxTicks \in Nat
  /\ MaxTxnErrors \in Nat
  /\ MaxFailovers \in Nat

VARIABLES
  \* etcd
  statusKeys,      \* node -> value of its status key, "none" when it has no key
  specKeys,        \* target groups that have a spec key
  store,           \* node -> placement under its key, Unplaced when it has no key
  lease,           \* does the election key of the running reconciler exist?
  \* Reconciler
  placements,      \* node -> placement
  known,           \* the keys of the placements map
  targetGroups,    \* the keys of the targetGroups map
  assignments,     \* target group -> Assignments
  dplStatuses,     \* node -> status, NoStatus when the map has no entry
  eventTimestamp,
  eventCh,
  delayedDeaths,   \* the delayed DataPlaneDead events, in order
  delayedRuns,     \* how many RunReconcile events are delayed
  \* the reconcile() call in progress
  pc, attempt, desired, loads, leftPtr, rightPtr,
  \* how much of each bound is spent
  spent

etcdVars == <<statusKeys, specKeys, store, lease>>
placementVars == <<placements, known, assignments>>
eventVars == <<eventTimestamp, eventCh, delayedDeaths>>
callVars == <<pc, attempt, desired, loads, leftPtr, rightPtr>>
vars == <<etcdVars, placementVars, targetGroups, dplStatuses, eventVars,
          delayedRuns, callVars, spent>>

----------------------------------------------------------------------------
\* Data

Placement == [version : Nat, tgs : SUBSET TargetGroups]
Unplaced == [version |-> 0, tgs |-> {}]
NothingDesired == [d \in DataPlanes |-> Unplaced]

Status == [State : {"none", "alive", "drained", "dead"},
           LastEvent : {"nil", "alive", "dead"}, Timestamp : Nat]
NoStatus == [State |-> "none", LastEvent |-> "nil", Timestamp |-> 0]

Event == [type : {"alive", "drained", "dead"}, node : DataPlanes]
           \cup [type : {"tg"}, tg : TargetGroups]
Death == [node : DataPlanes, timestamp : Nat]

MinOf(a, b) == IF a <= b THEN a ELSE b
MaxOf(a, b) == IF a >= b THEN a ELSE b

\* The nodes on which placement function pls puts target group tg.
Holders(pls, tg) == {d \in DataPlanes : tg \in pls[d].tgs}

\* The nodes that can be given target groups: in the placements map and alive.
Alive == {d \in known : dplStatuses[d].State = "alive"}

Attempts == 3

----------------------------------------------------------------------------
\* Becoming leader: the initial sync reads etcd, Init builds the local state.

\* A node that has a placement and no status key counts as drained.
SyncedStatus(d) ==
  [State |-> IF statusKeys[d] # "none" THEN statusKeys[d]
             ELSE IF store[d] # Unplaced THEN "drained" ELSE "none",
   LastEvent |-> "nil", Timestamp |-> 0]

SyncedKnown == {d \in DataPlanes : statusKeys[d] # "none" \/ store[d] # Unplaced}

\* The status watch starts behind the newest revision among the LIVE keys, so
\* the deletion of a key may be older than the read and still be delivered.
ReplayedEvents ==
  {<< >>} \cup {<<[type |-> "dead", node |-> d]>> :
                  d \in {e \in DataPlanes :
                           /\ statusKeys[e] = "none"
                           /\ \E f \in DataPlanes : statusKeys[f] # "none"}}

Init ==
  /\ statusKeys \in [DataPlanes -> {"none", "alive"}]
  /\ specKeys \in SUBSET TargetGroups
  /\ store = NothingDesired
  /\ lease = TRUE
  /\ placements = store
  /\ known = SyncedKnown
  /\ targetGroups = specKeys
  /\ assignments = [tg \in TargetGroups |-> Holders(store, tg)]
  /\ dplStatuses = [d \in DataPlanes |-> SyncedStatus(d)]
  /\ eventTimestamp = 1
  /\ eventCh \in ReplayedEvents
  /\ delayedDeaths = << >>
  /\ delayedRuns = 1
  /\ pc = "idle" /\ attempt = 0 /\ desired = NothingDesired
  /\ loads = << >> /\ leftPtr = 0 /\ rightPtr = 0
  /\ spent = [events |-> 0, ticks |-> 0, errors |-> 0, failovers |-> 0]

\* The lease expires; the reconciler keeps working until it is replaced.
LoseLease ==
  /\ lease
  /\ spent.failovers < MaxFailovers
  /\ lease' = FALSE
  /\ spent' = [spent EXCEPT !.failovers = @ + 1]
  /\ UNCHANGED <<statusKeys, specKeys, store, placementVars, targetGroups,
                 dplStatuses, eventVars, delayedRuns, callVars>>

\* A reconciler wins the election, possibly in the middle of a call of the old
\* one, and starts from what etcd holds.
BecomeLeader ==
  /\ ~lease
  /\ lease' = TRUE
  /\ placements' = store
  /\ known' = SyncedKnown
  /\ targetGroups' = specKeys
  /\ assignments' = [tg \in TargetGroups |-> Holders(store, tg)]
  /\ dplStatuses' = [d \in DataPlanes |-> SyncedStatus(d)]
  /\ eventTimestamp' = 1
  /\ eventCh' \in ReplayedEvents
  /\ delayedDeaths' = << >>
  /\ delayedRuns' = 1
  /\ pc' = "idle" /\ attempt' = 0 /\ desired' = NothingDesired
  /\ loads' = << >> /\ leftPtr' = 0 /\ rightPtr' = 0
  /\ UNCHANGED <<statusKeys, specKeys, store, spent>>

----------------------------------------------------------------------------
\* The rest of the system writes to etcd and the watchers pass the change on.

Notify(event) ==
  /\ spent.events < MaxEvents
  /\ spent' = [spent EXCEPT !.events = @ + 1]
  /\ eventCh' = Append(eventCh, event)
  /\ UNCHANGED <<store, lease, placementVars, targetGroups, dplStatuses,
                 eventTimestamp, delayedDeaths, delayedRuns, callVars>>

PutStatus(d, value) ==
  /\ statusKeys' = [statusKeys EXCEPT ![d] = value]
  /\ Notify([type |-> value, node |-> d])
  /\ UNCHANGED specKeys

ExpireStatus(d) ==
  /\ statusKeys[d] # "none"
  /\ statusKeys' = [statusKeys EXCEPT ![d] = "none"]
  /\ Notify([type |-> "dead", node |-> d])
  /\ UNCHANGED specKeys

\* Every put of a spec is reported as a creation: the watch does not ask for
\* the previous value.
PutTargetGroup(tg) ==
  /\ specKeys' = specKeys \cup {tg}
  /\ Notify([type |-> "tg", tg |-> tg])
  /\ UNCHANGED statusKeys

----------------------------------------------------------------------------
\* The event loop

StartReconcile == pc' = "calc" /\ attempt' = 1 /\ UNCHANGED <<desired, loads, leftPtr, rightPtr>>
StayIdle == UNCHANGED callVars

Receive(type) ==
  /\ pc = "idle"
  /\ eventCh # << >>
  /\ Head(eventCh).type = type
  /\ eventCh' = Tail(eventCh)
  /\ eventTimestamp' = eventTimestamp + 1

\* A death is only acted on after a delay.
ReceiveDeath ==
  /\ Receive("dead")
  /\ delayedDeaths' = Append(delayedDeaths,
       [node |-> Head(eventCh).node, timestamp |-> eventTimestamp + 1])
  /\ UNCHANGED <<etcdVars, placementVars, targetGroups, dplStatuses,
                 delayedRuns, callVars, spent>>

HandleDataPlaneAlive ==
  /\ Receive("alive")
  /\ LET d == Head(eventCh).node
         old == dplStatuses[d]
     IN /\ dplStatuses' = [dplStatuses EXCEPT ![d] =
             [State |-> "alive", LastEvent |-> "alive",
              Timestamp |-> MaxOf(eventTimestamp + 1, old.Timestamp)]]
        /\ IF old = NoStatus
           THEN /\ known' = known \cup {d}
                /\ placements' = [placements EXCEPT ![d] = Unplaced]
           ELSE UNCHANGED <<known, placements>>
        /\ IF old.State = "alive" THEN StayIdle ELSE StartReconcile
  /\ UNCHANGED <<etcdVars, assignments, targetGroups, delayedDeaths,
                 delayedRuns, spent>>

\* "data-plane draining is unimplemented for now"
HandleDataPlaneDrained ==
  /\ Receive("drained")
  /\ UNCHANGED <<etcdVars, placementVars, targetGroups, dplStatuses,
                 delayedDeaths, delayedRuns, callVars, spent>>

HandleTargetGroupEvent ==
  /\ Receive("tg")
  /\ LET tg == Head(eventCh).tg
     IN /\ targetGroups' = targetGroups \cup {tg}
        /\ IF tg \in targetGroups THEN StayIdle ELSE StartReconcile
  /\ UNCHANGED <<etcdVars, placementVars, dplStatuses, delayedDeaths,
                 delayedRuns, spent>>

\* Mutant of Cancelled: the timestamps are not compared.
NeverCancelled(death) == FALSE

\* An alive event that arrived after the death cancels it.
Cancelled(death) ==
  LET status == dplStatuses[death.node]
  IN status.LastEvent = "alive" /\ status.Timestamp > death.timestamp

HandleDataPlaneDeath ==
  /\ pc = "idle"
  /\ delayedDeaths # << >>
  /\ delayedDeaths' = Tail(delayedDeaths)
  /\ LET death == Head(delayedDeaths)
         old == dplStatuses[death.node]
     IN IF Cancelled(death)
        THEN StayIdle /\ UNCHANGED dplStatuses
        ELSE /\ dplStatuses' = [dplStatuses EXCEPT ![death.node] =
                  [State |-> "dead", LastEvent |-> "dead",
                   Timestamp |-> MaxOf(death.timestamp, old.Timestamp)]]
             /\ IF old.State = "alive" THEN StartReconcile ELSE StayIdle
  /\ UNCHANGED <<etcdVars, placementVars, targetGroups, eventTimestamp,
                 eventCh, delayedRuns, spent>>

\* Mutant of RunReconcile: the timer fires and the list is not checked for being empty.
RunReconcileUnchecked ==
  /\ pc = "idle"
  /\ delayedRuns' = delayedRuns - 1
  /\ StartReconcile
  /\ UNCHANGED <<etcdVars, placementVars, targetGroups, dplStatuses,
                 eventVars, spent>>

RunReconcile ==
  /\ pc = "idle"
  /\ delayedRuns > 0
  /\ delayedRuns' = delayedRuns - 1
  /\ StartReconcile
  /\ UNCHANGED <<etcdVars, placementVars, targetGroups, dplStatuses,
                 eventVars, spent>>

ForceReconcile ==
  /\ pc = "idle"
  /\ spent.ticks < MaxTicks
  /\ spent' = [spent EXCEPT !.ticks = @ + 1]
  /\ StartReconcile
  /\ UNCHANGED <<etcdVars, placementVars, targetGroups, dplStatuses,
                 eventVars, delayedRuns>>

----------------------------------------------------------------------------
\* reconcileAttempt: calculateDesiredLazy and replaceMissedTargetGroups

\* How many replicas of tg are missing.  Negative when it has too many.
NeedReplace(tg) ==
  LET onNotAlive == Cardinality({d \in known \ Alive : tg \in placements[d].tgs})
      underReplicated == ReplicationFactor - Cardinality(assignments[tg])
  IN MinOf(onNotAlive + underReplicated, ReplicationFactor)

Candidates(tg) == {d \in Alive : tg \notin placements[d].tgs}

\* The sets of nodes that may be given a replica of tg.  The loop counts down to
\* exactly zero, so a negative count takes every candidate.
Replacements(tg) ==
  LET need == NeedReplace(tg)
      free == Cardinality(Candidates(tg))
      count == IF need < 0 THEN free ELSE MinOf(need, free)
  IN {new \in SUBSET Candidates(tg) : Cardinality(new) = count}

\* Mutant of DesiredLazy: the placement of a node that is not alive is made anew.
DesiredLazyAnew(d, tgs) ==
  LET cur == placements[d]
  IN IF d \in Alive
     THEN IF tgs = {} THEN cur
          ELSE [version |-> cur.version + 1, tgs |-> cur.tgs \cup tgs]
     ELSE Unplaced

\* Mutant of DesiredLazy: a node that is not alive keeps its target groups.
DesiredLazyKept(d, tgs) ==
  LET cur == placements[d]
  IN IF tgs = {} THEN cur
     ELSE [version |-> cur.version + 1, tgs |-> cur.tgs \cup tgs]

\* The desired placement of d when the target groups tgs are added to it.
DesiredLazy(d, tgs) ==
  LET cur == placements[d]
  IN IF d \in Alive
     THEN IF tgs = {} THEN cur
          ELSE [version |-> cur.version + 1, tgs |-> cur.tgs \cup tgs]
     ELSE [version |-> IF cur.tgs = {} THEN cur.version ELSE cur.version + 1,
           tgs |-> {}]

\* Is the sequence o of nodes sorted by load, then by id?
SortedByLoad(o, pls) ==
  \A i, j \in DOMAIN o : i < j =>
    LET a == Cardinality(pls[o[i]].tgs)
        b == Cardinality(pls[o[j]].tgs)
    IN a < b \/ (a = b /\ o[i] < o[j])

FinishCall ==
  /\ pc' = "idle" /\ attempt' = 0 /\ desired' = NothingDesired
  /\ loads' = << >> /\ leftPtr' = 0 /\ rightPtr' = 0

\* With no alive node the attempt ends without an error and changes nothing.
NoAliveDataPlanes ==
  /\ pc = "calc"
  /\ Alive = {}
  /\ FinishCall
  /\ UNCHANGED <<etcdVars, placementVars, targetGroups, dplStatuses, eventVars,
                 delayedRuns, spent>>

CalculateDesired ==
  /\ pc = "calc"
  /\ Alive # {}
  /\ \E new \in [targetGroups -> SUBSET Alive] :
       /\ \A tg \in targetGroups : new[tg] \in Replacements(tg)
       /\ desired' = [d \in DataPlanes |->
                        DesiredLazy(d, {tg \in targetGroups : d \in new[tg]})]
  /\ loads' \in [1 .. Cardinality(Alive) -> Alive]
  /\ SortedByLoad(loads', desired')
  /\ leftPtr' = 1
  /\ rightPtr' = Cardinality(Alive)
  /\ pc' = "balance"
  /\ UNCHANGED <<attempt, etcdVars, placementVars, targetGroups, dplStatuses,
                 eventVars, delayedRuns, spent>>

----------------------------------------------------------------------------
\* fixDataplanePlacements and generateTgMovement

ShouldHaveAtLeast ==
  (Cardinality(targetGroups) * ReplicationFactor) \div Cardinality(Alive)

\* Mutant of Movements: a target group that the receiver has is moved too.
MovementsUnchecked(from, to, move) ==
  LET movable == desired[from].tgs
      count == IF move < 0 THEN Cardinality(movable)
               ELSE MinOf(move, Cardinality(movable))
  IN {tgs \in SUBSET movable : Cardinality(tgs) = count}

\* The sets of target groups that may be moved: as many as move says, and all
\* of them when move is negative, because the loop counts down to exactly zero.
Movements(from, to, move) ==
  LET movable == desired[from].tgs \ desired[to].tgs
      count == IF move < 0 THEN Cardinality(movable)
               ELSE MinOf(move, Cardinality(movable))
  IN {tgs \in SUBSET movable : Cardinality(tgs) = count}

Move(from, to, tgs) ==
  desired' = [desired EXCEPT
    ![to] = [version |-> @.version + 1, tgs |-> @.tgs \cup tgs],
    ![from] = [version |-> @.version + 1, tgs |-> @.tgs \ tgs]]

GenerateTgMovement ==
  /\ pc = "balance"
  /\ leftPtr < rightPtr
  /\ LET to == loads[leftPtr]
         from == loads[rightPtr]
         needMoveTo == ShouldHaveAtLeast - Cardinality(desired[to].tgs)
         canMoveFrom == Cardinality(desired[from].tgs) - ShouldHaveAtLeast
         move == MinOf(needMoveTo, canMoveFrom)
     IN /\ leftPtr' = IF canMoveFrom >= needMoveTo THEN leftPtr + 1 ELSE leftPtr
        /\ rightPtr' = IF needMoveTo >= canMoveFrom THEN rightPtr - 1 ELSE rightPtr
        /\ \/ move = 0 /\ UNCHANGED desired
           \/ move # 0 /\ \E tgs \in Movements(from, to, move) : Move(from, to, tgs)
  /\ UNCHANGED <<pc, attempt, loads, etcdVars, placementVars, targetGroups,
                 dplStatuses, eventVars, delayedRuns, spent>>

----------------------------------------------------------------------------
\* applyDesiredState, UpdatePlacements and applyLocal

Balanced == pc = "balance" /\ leftPtr >= rightPtr

\* The nodes whose placement the attempt changes, told apart by version only.
Changed == {d \in known : desired[d].version # placements[d].version}

NoChanges ==
  /\ Balanced
  /\ Changed = {}
  /\ FinishCall
  /\ UNCHANGED <<etcdVars, placementVars, targetGroups, dplStatuses, eventVars,
                 delayedRuns, spent>>

UpdatePlacements ==
  /\ Balanced
  /\ Changed # {}
  /\ pc' = "commit"
  /\ UNCHANGED <<attempt, desired, loads, leftPtr, rightPtr, etcdVars,
                 placementVars, targetGroups, dplStatuses, eventVars,
                 delayedRuns, spent>>

\* The placements pls after the transaction, or applyLocal, wrote the changed ones.
WrittenTo(pls) == [d \in DataPlanes |-> IF d \in Changed THEN desired[d] ELSE pls[d]]

\* Mutant of AppliedAssignments: the old assignments are not deleted.
AppendedAssignments(tg) ==
  assignments[tg] \cup {d \in Changed : tg \in desired[d].tgs}

\* applyLocal takes every changed node off its old target groups, then adds it
\* to its new ones.
AppliedAssignments(tg) ==
  {d \in assignments[tg] : d \notin Changed \/ tg \notin placements[d].tgs}
    \cup {d \in Changed : tg \in desired[d].tgs}

CommitSucceeds ==
  /\ pc = "commit"
  /\ lease
  /\ store' = WrittenTo(store)
  /\ placements' = WrittenTo(placements)
  /\ assignments' = [tg \in TargetGroups |-> AppliedAssignments(tg)]
  /\ FinishCall
  /\ UNCHANGED <<statusKeys, specKeys, lease, known, targetGroups, dplStatuses,
                 eventVars, delayedRuns, spent>>

\* Mutant of AttemptFailed: a failed call is not repeated later.
AttemptForgotten == FinishCall /\ UNCHANGED delayedRuns

\* retry.Do: another attempt, or an error when the attempts or the ten seconds
\* are used up; the error is answered by a delayed RunReconcile.
AttemptFailed ==
  \/ /\ attempt < Attempts
     /\ pc' = "calc" /\ attempt' = attempt + 1 /\ desired' = NothingDesired
     /\ loads' = << >> /\ leftPtr' = 0 /\ rightPtr' = 0
     /\ UNCHANGED delayedRuns
  \/ /\ delayedRuns' = delayedRuns + 1
     /\ FinishCall

\* The comparison of the election key fails: nothing is written.
CommitRejected ==
  /\ pc = "commit"
  /\ ~lease
  /\ AttemptFailed
  /\ UNCHANGED <<etcdVars, placementVars, targetGroups, dplStatuses, eventVars, spent>>

\* The call of etcd returns an error; whether the transaction was applied is
\* not known to the caller.
CommitError ==
  /\ pc = "commit"
  /\ spent.errors < MaxTxnErrors
  /\ spent' = [spent EXCEPT !.errors = @ + 1]
  /\ \/ UNCHANGED store
     \/ AmbiguousCommits /\ lease /\ store' = WrittenTo(store)
  /\ AttemptFailed
  /\ UNCHANGED <<statusKeys, specKeys, lease, placementVars, targetGroups,
                 dplStatuses, eventVars>>

----------------------------------------------------------------------------

Environment ==
  \/ \E d \in DataPlanes, value \in {"alive", "drained"} : PutStatus(d, value)
  \/ \E d \in DataPlanes : ExpireStatus(d)
  \/ \E tg \in TargetGroups : PutTargetGroup(tg)
  \/ LoseLease

EventLoop ==
  \/ ReceiveDeath
  \/ HandleDataPlaneAlive
  \/ HandleDataPlaneDrained
  \/ HandleTargetGroupEvent
  \/ HandleDataPlaneDeath
  \/ RunReconcile
  \/ ForceReconcile

Call ==
  \/ NoAliveDataPlanes
  \/ CalculateDesired
  \/ GenerateTgMovement
  \/ NoChanges
  \/ UpdatePlacements
  \/ CommitSucceeds
  \/ CommitRejected
  \/ CommitError

Next == Environment \/ BecomeLeader \/ EventLoop \/ Call

\* A call of reconcile() runs to its end, and a reconciler campaigns until it
\* leads.  Each ready case of the loop's select is taken eventually although calls
\* come in between: select chooses at random.  The ticker, the clients of etcd and
\* its errors are not fair.
Fairness ==
  /\ WF_vars(BecomeLeader)
  /\ SF_vars(ReceiveDeath \/ HandleDataPlaneAlive \/ HandleDataPlaneDrained
               \/ HandleTargetGroupEvent)
  /\ SF_vars(HandleDataPlaneDeath \/ RunReconcile)
  /\ WF_vars(NoAliveDataPlanes \/ CalculateDesired \/ GenerateTgMovement
               \/ NoChanges \/ UpdatePlacements \/ CommitSucceeds \/ CommitRejected)

Spec == Init /\ [][Next]_vars
FairSpec == Spec /\ Fairness

----------------------------------------------------------------------------
\* Properties

\* Every variable has the type of its Go counterpart.
TypeOK ==
  /\ statusKeys \in [DataPlanes -> {"none", "alive", "drained"}]
  /\ specKeys \in SUBSET TargetGroups
  /\ store \in [DataPlanes -> Placement]
  /\ lease \in BOOLEAN
  /\ placements \in [DataPlanes -> Placement]
  /\ known \in SUBSET DataPlanes
  /\ targetGroups \in SUBSET TargetGroups
  /\ assignments \in [TargetGroups -> SUBSET DataPlanes]
  /\ dplStatuses \in [DataPlanes -> Status]
  /\ eventTimestamp \in Nat
  /\ eventCh \in Seq(Event)
  /\ delayedDeaths \in Seq(Death)
  /\ delayedRuns \in Nat
  /\ pc \in {"idle", "calc", "balance", "commit"}
  /\ attempt \in 0 .. Attempts
  /\ desired \in [DataPlanes -> Placement]
  /\ loads \in Seq(DataPlanes)
  /\ leftPtr \in Nat
  /\ rightPtr \in Nat
  /\ spent \in [events : Nat, ticks : Nat, errors : Nat, failovers : Nat]

\* Assignments is the inverse of placements, and only target groups that have
\* an entry are placed: applyLocal and Init write to
\* targetGroups[tg].Assignments[node], a write to a nil map (a panic) otherwise.
AssignmentsMatchPlacements ==
  \A tg \in TargetGroups :
    /\ assignments[tg] = Holders(placements, tg)
    /\ assignments[tg] # {} => tg \in targetGroups

\* No target group is placed on more nodes than the replication factor, in etcd,
\* whatever interleaving of deaths, returns, failed attempts and failovers.
ReplicationBound ==
  \A tg \in TargetGroups : Cardinality(Holders(store, tg)) <= ReplicationFactor

\* Every target group is on as many alive nodes as it can be, and on no other.
Replicated(pls) ==
  \A tg \in targetGroups :
    /\ Holders(pls, tg) \subseteq Alive
    /\ Cardinality(Holders(pls, tg)) = MinOf(ReplicationFactor, Cardinality(Alive))

\* A call that ends without an error and had an alive node leaves every target
\* group fully replicated in etcd: moving replicas to even out the loads loses
\* and duplicates none, also when the call had "no changes".
ReconcileReplicates ==
  [][(/\ pc \in {"balance", "commit"}
       /\ pc' = "idle"
       /\ lease
       /\ delayedRuns' = delayedRuns)
      => (Replicated(store))']_vars

\* The loop waits for events with nothing left to repeat only when every target
\* group is fully replicated in etcd: whatever makes a placement incomplete (a
\* new target group, a node that comes or dies, a failed call, a failover) has
\* started a call or left a delayed RunReconcile, and none of them is lost.
IdleMeansReplicated == pc = "idle" /\ delayedRuns = 0 /\ Alive # {} => Replicated(store)

\* A placement in etcd changes only together with an increase of its version:
\* the API drops an update whose version is not greater than the one it has.
VersionsAdvance ==
  [][\A d \in DataPlanes :
       store'[d] # store[d] => store'[d].version > store[d].version]_vars

\* A node whose status events have all been handled is believed alive exactly
\* when its key exists: a death delayed before the node came back does not kill
\* it, and no death is forgotten.
StatusesFollowEtcd ==
  \A d \in DataPlanes :
    ~(\E i \in DOMAIN eventCh : eventCh[i].type # "tg" /\ eventCh[i].node = d) =>
      /\ statusKeys[d] = "alive" => dplStatuses[d].State = "alive"
      /\ /\ statusKeys[d] = "none"
         /\ \A i \in DOMAIN delayedDeaths : delayedDeaths[i].node # d
         => dplStatuses[d].State # "alive"

\* When events, errors and failovers stop, the placement in etcd becomes and
\* stays fully replicated over the nodes that the reconciler knows to be alive.
EventuallyReplicated == <>[](Alive # {} => Replicated(store))

\* reconciler.go: the placements map "must be in sync with etcd".
\* Checked when no call is running and no failed call waits to be repeated.
InSyncWithEtcd == lease /\ pc = "idle" /\ delayedRuns = 0 => placements = store

\* recontile_algo_balanced.go about the balancing pass: "the original enforces
\* only a lower bound (floor) per node".
FloorEnforced ==
  Balanced /\ Cardinality(Alive) >= ReplicationFactor =>
    \A d \in Alive : Cardinality(desired[d].tgs) >= ShouldHaveAtLeast

\* bench_test.go: "every target group must be replicated rf times", here over
\* the nodes that are registered in etcd, none of them drained.
EventuallyReplicatedOnRegistered ==
  LET Registered == {d \in DataPlanes : statusKeys[d] = "alive"}
      Drained == {d \in DataPlanes : statusKeys[d] = "drained"}
  IN <>[](Drained = {} /\ Cardinality(Registered) >= ReplicationFactor =>
            \A tg \in specKeys :
              Cardinality(Holders(store, tg) \cap Registered) = ReplicationFactor)
=============================================================================
