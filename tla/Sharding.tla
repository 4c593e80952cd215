------------------------------ MODULE Sharding ------------------------------
(***************************************************************************)
(* One health-check worker: which targets it checks.  The coordinator      *)
(* (healthcheck/internal/coordinator) keeps the scheduler in step with     *)
(* three sources: the rows of the table targets, the change events of that *)
(* table, and the gossip about the other workers, from which the sharder   *)
(* (internal/sharder) and its hash circle (internal/consistent/circle.go)  *)
(* derive the virtual shards of this worker.  Two goroutines change the    *)
(* same sets: the one that handles membership events (crd) and the one     *)
(* that reads the change events (watcher).  The controller's rpc handlers  *)
(* and the table are the environment.                                      *)
(*                                                                         *)
(* A target stands for its address: the scheduler and the links are keyed  *)
(* by the address alone.  All targets belong to one target group.          *)
(***************************************************************************)
EXTENDS Integers, Sequences, FiniteSets, FiniteSetsExt

CONSTANTS Me,                \* HC_WORKER_ID of this worker
          Others,            \* the other workers
          Targets, VShards,
          VShardOf,          \* GetTargetVshard: the circle of the virtual shards never changes
          Circles,           \* the placements of hashes on the circle of workers to check
          ReplicationFactor,
          MaxChanges,        \* bound: rows written or deleted
          MaxMembership,     \* bound: gossip events
          MaxFaults          \* bound: failed database calls and crashes

Nodes == {Me} \cup Others

ASSUME ShardingAssumption ==
    /\ Me \notin Others
    /\ VShardOf \in [Targets -> VShards]
    /\ ReplicationFactor \in Nat \ {0}
    /\ \A c \in Circles : /\ c.points \in Seq(Nodes)
                          /\ \A n \in Nodes : \E i \in DOMAIN c.points : c.points[i] = n
                          /\ c.key \in [VShards -> DOMAIN c.points]

VARIABLES circle,      \* the hashes of all workers in order, and where each shard's key falls
          db,          \* table targets
          settings,    \* table settings has the row of the target group
          log,         \* the topic with the table's changes
          next,        \* reader: messages fetched
          committed,   \* consumer group: offset committed, -1 when there is none
          known,       \* memberlist: workers it has announced
          events,      \* membershipEvents
          hosts,       \* circle: loadMap
          myVShards,   \* sharder
          links,       \* sharder: checksByVShard
          sched,       \* scheduler: targets in the heap
          crd,         \* goroutine of main, then of StartHandleMembershipChanges
          watcher,     \* goroutine of RunTargetWatcher
          missed,      \* history: targets an error, or the reader's first offset, passed over
          changes, gossips, faults

db_vars   == <<db, settings, log, changes>>
gossip    == <<known, gossips>>
sharder   == <<hosts, myVShards, links>>
vars == <<circle, db_vars, next, committed, gossip, events, sharder, sched, crd, watcher, missed, faults>>

Idle == [stage |-> "idle"]
FetchTargets(shards) == [stage |-> "get", shards |-> shards]
-----------------------------------------------------------------------------
(* The circle. *)

\* How many points a search that starts at the shard's key passes before it meets the worker.
Distance(c, v, n) ==
    LET L == Len(c.points)
    IN  Min({i \in 0 .. L - 1 : c.points[((c.key[v] + i - 1) % L) + 1] = n})

FirstHost(c, h) == c.points[Min({i \in DOMAIN c.points : c.points[i] \in h})]

MarkHealthy(n) == hosts' = hosts \cup {n}
MarkUnhealthy(n) == hosts' = hosts \ {n}

\* With fewer hosts than the offset the host of the smallest hash is returned.
GetWithOffset(c, v, offset, h) ==
    IF offset >= Cardinality(h) THEN FirstHost(c, h)
    ELSE CHOOSE n \in h : Cardinality({x \in h : Distance(c, v, x) < Distance(c, v, n)}) = offset

NodeIDsByVshard ==
    [c \in Circles |-> [v \in VShards |-> [h \in (SUBSET Nodes) \ {{}} |->
        {GetWithOffset(c, v, i, h) : i \in 0 .. ReplicationFactor - 1}]]]

GetNodeIDsByVshard(v) == NodeIDsByVshard[circle][v][hosts]

NeedHandle(t) == Me \in GetNodeIDsByVshard(VShardOf[t])
-----------------------------------------------------------------------------
Started ==
    /\ hosts = {Me}
    /\ myVShards = VShards
    /\ links = {} /\ sched = {} /\ missed = {}
    /\ known = {}
    /\ events = <<[type |-> "New", from |-> Me]>>
    /\ crd = FetchTargets(VShards)
    /\ watcher = [stage |-> "off"]

Init ==
    /\ circle \in Circles
    /\ db \in SUBSET Targets /\ settings \in BOOLEAN
    /\ log = <<>> /\ next = 0 /\ committed = -1
    /\ changes = 0 /\ gossips = 0 /\ faults = 0
    /\ Started

\* The process stops, is killed or ends in log.Fatal, and main runs again.
Restart ==
    /\ faults < MaxFaults /\ faults' = faults + 1
    /\ hosts' = {Me} /\ myVShards' = VShards
    /\ links' = {} /\ sched' = {} /\ missed' = {}
    /\ known' = {} /\ events' = <<[type |-> "New", from |-> Me]>>
    /\ crd' = FetchTargets(VShards)
    /\ watcher' = [stage |-> "off"]
    /\ UNCHANGED <<circle, db_vars, next, committed, gossips>>
-----------------------------------------------------------------------------
(* The controller's handlers; the database connector writes the events. *)

CreateTargets(t) ==
    /\ db' = db \cup {t}
    /\ log' = Append(log, [op |-> "Create", target |-> t])

RemoveTargets(t) ==
    /\ db' = db \ {t}
    /\ log' = Append(log, [op |-> "Delete", target |-> t])

AddEndpoints(t) ==
    /\ changes < MaxChanges /\ t \notin db
    /\ CreateTargets(t)
    /\ changes' = changes + 1
    /\ missed' = missed \ {t}
    /\ UNCHANGED <<circle, settings, next, committed, gossip, events, sharder, sched, crd, watcher, faults>>

RemoveEndpoints(t) ==
    /\ changes < MaxChanges /\ t \in db
    /\ RemoveTargets(t)
    /\ changes' = changes + 1
    /\ missed' = missed \ {t}
    /\ UNCHANGED <<circle, settings, next, committed, gossip, events, sharder, sched, crd, watcher, faults>>

CreateSettings ==
    /\ ~settings /\ settings' = TRUE
    /\ UNCHANGED <<circle, db, log, changes, next, committed, gossip, events, sharder, sched, crd, watcher, missed, faults>>
-----------------------------------------------------------------------------
(* Gossip: a join is New, a leave is Dead unless the node said goodbye. *)

MemberShipEventType(event, state) ==
    CASE event = "NodeJoin" -> "New"
      [] event = "NodeLeave" /\ state = "Left" -> "Updating"
      [] event = "NodeLeave" /\ state = "Dead" -> "Dead"

Gossip(n, event, state) ==
    /\ gossips < MaxMembership /\ gossips' = gossips + 1
    /\ (event = "NodeJoin") = (n \notin known)
    /\ known' = IF event = "NodeJoin" THEN known \cup {n} ELSE known \ {n}
    /\ events' = Append(events, [type |-> MemberShipEventType(event, state), from |-> n])
    /\ UNCHANGED <<circle, db_vars, next, committed, sharder, sched, crd, watcher, missed, faults>>
-----------------------------------------------------------------------------
(* The goroutine of the membership events. *)

\* Mutant: the guard is taken before there are events.
GuardTakenEarly == watcher.stage # "idle"

\* sharderSchedulerGuard is held by the goroutine of the change events.
Guarded == watcher.stage \in {"add", "unlink"}

HandleMembershipEvent ==
    /\ crd.stage = "idle" /\ events # <<>>
    /\ events' = Tail(events)
    /\ LET e == Head(events)
       IN  CASE e.type = "New" /\ e.from # Me ->
                  /\ MarkHealthy(e.from)
                  /\ crd' = [stage |-> "added", node |-> e.from]
             [] e.type = "Dead" ->
                  /\ MarkUnhealthy(e.from)
                  /\ crd' = [stage |-> "removed"]
             [] OTHER -> UNCHANGED <<hosts, crd>>
    /\ UNCHANGED <<circle, db_vars, next, committed, gossip, myVShards, links, sched, watcher, missed, faults>>

\* Mutant: every shard the new worker takes part in is given away.
SharedShards(n) == {v \in myVShards : n \in GetNodeIDsByVshard(v)}

LostShards(n) ==
    {v \in myVShards : LET nodes == GetNodeIDsByVshard(v) IN n \in nodes /\ Me \notin nodes}

AddNewMember ==
    /\ crd.stage = "added"
    /\ LET lost == LostShards(crd.node)
           drop == {t \in links : VShardOf[t] \in lost}
       IN  /\ myVShards' = myVShards \ lost
           /\ links' = links \ drop
           /\ crd' = [stage |-> "drop", targets |-> drop]
    /\ UNCHANGED <<circle, db_vars, next, committed, gossip, events, hosts, sched, watcher, missed, faults>>

DropTarget ==
    /\ crd.stage = "drop"
    /\ IF crd.targets = {} THEN crd' = Idle /\ UNCHANGED sched
       ELSE \E t \in crd.targets : /\ sched' = sched \ {t}
                                   /\ crd' = [crd EXCEPT !.targets = @ \ {t}]
    /\ UNCHANGED <<circle, db_vars, next, committed, gossip, events, sharder, watcher, missed, faults>>

GainedShards == {v \in VShards \ myVShards : Me \in GetNodeIDsByVshard(v)}

RemoveMember ==
    /\ crd.stage = "removed"
    /\ myVShards' = myVShards \cup GainedShards
    /\ crd' = FetchTargets(GainedShards)
    /\ UNCHANGED <<circle, db_vars, next, committed, gossip, events, hosts, links, sched, watcher, missed, faults>>

GetTargets ==
    /\ crd.stage = "get"
    /\ crd' = [stage |-> "settings", targets |-> {t \in db : VShardOf[t] \in crd.shards /\ NeedHandle(t)}]
    /\ UNCHANGED <<circle, db_vars, next, committed, gossip, events, sharder, sched, watcher, missed, faults>>

GetSettingsForTargetGroups ==
    /\ crd.stage = "settings"
    /\ crd' = [stage |-> "apply", targets |-> crd.targets, found |-> settings]
    /\ UNCHANGED <<circle, db_vars, next, committed, gossip, events, sharder, sched, watcher, missed, faults>>

\* Both queries may fail: the start ends in log.Fatal (Restart), a takeover is given up.
FetchFails ==
    /\ crd.stage \in {"get", "settings"} /\ watcher.stage # "off"
    /\ faults < MaxFaults /\ faults' = faults + 1
    /\ crd' = Idle
    /\ missed' = missed \cup (IF crd.stage = "get" THEN {t \in db : VShardOf[t] \in crd.shards}
                              ELSE crd.targets)
    /\ UNCHANGED <<circle, db_vars, next, committed, gossip, events, sharder, sched, watcher>>

\* Under the guard and in the only goroutine that changes the hosts.
ScheduleTargets ==
    /\ crd.stage = "apply" /\ ~Guarded
    /\ crd' = Idle
    /\ IF crd.found
       THEN /\ sched' = sched \cup crd.targets
            /\ links' = links \cup crd.targets
            /\ missed' = missed \ crd.targets
       ELSE missed' = missed \cup crd.targets /\ UNCHANGED <<sched, links>>
    /\ watcher' = IF watcher.stage = "off" THEN [stage |-> "join"] ELSE watcher
    /\ UNCHANGED <<circle, db_vars, next, committed, gossip, events, hosts, myVShards, faults>>
-----------------------------------------------------------------------------
(* The goroutine of the change events. *)

\* Mutant: the reader starts at the end of the topic also when its group has an offset.
JoinAtEnd ==
    /\ watcher.stage = "join"
    /\ watcher' = Idle
    /\ next' = Len(log)
    /\ missed' = IF committed = -1 THEN missed \cup {t \in db \ sched : NeedHandle(t)} ELSE missed
    /\ UNCHANGED <<circle, db_vars, committed, gossip, events, sharder, sched, crd, faults>>

\* After the first fetch the reader joins, at the end of the topic when its group is new.
JoinTopic ==
    /\ watcher.stage = "join"
    /\ watcher' = Idle
    /\ next' = IF committed = -1 THEN Len(log) ELSE committed
    /\ missed' = IF committed = -1 THEN missed \cup {t \in db \ sched : NeedHandle(t)} ELSE missed
    /\ UNCHANGED <<circle, db_vars, committed, gossip, events, sharder, sched, crd, faults>>

\* A message for another worker is committed at once.
FetchMessage ==
    /\ watcher.stage = "idle" /\ next < Len(log)
    /\ next' = next + 1
    /\ LET e == log[next + 1]
       IN  IF NeedHandle(e.target)
           THEN /\ watcher' = [stage |-> IF e.op = "Create" THEN "settings" ELSE "remove", target |-> e.target]
                /\ UNCHANGED committed
           ELSE committed' = next + 1 /\ UNCHANGED watcher
    /\ UNCHANGED <<circle, db_vars, gossip, events, sharder, sched, crd, missed, faults>>

ReadSettings ==
    /\ watcher.stage = "settings"
    /\ watcher' = [stage |-> "link", target |-> watcher.target, found |-> settings]
    /\ UNCHANGED <<circle, db_vars, next, committed, gossip, events, sharder, sched, crd, missed, faults>>

\* A handler that fails leaves its message uncommitted, and the reader goes on.
ReadSettingsFails ==
    /\ watcher.stage = "settings"
    /\ faults < MaxFaults /\ faults' = faults + 1
    /\ missed' = missed \cup {watcher.target}
    /\ watcher' = Idle
    /\ UNCHANGED <<circle, db_vars, next, committed, gossip, events, sharder, sched, crd>>

\* Mutant: the offset of the message that follows is committed.
CommitAhead == watcher' = Idle /\ committed' = next + 1

CommitMessage == watcher' = Idle /\ committed' = next

\* A target that is linked already is left alone; without settings the link stays behind.
LinkTarget ==
    /\ watcher.stage = "link"
    /\ IF watcher.target \in links THEN CommitMessage /\ UNCHANGED <<links, missed>>
       ELSE /\ links' = links \cup {watcher.target}
            /\ IF watcher.found
               THEN watcher' = [stage |-> "add", target |-> watcher.target] /\ UNCHANGED missed
               ELSE watcher' = Idle /\ missed' = missed \cup {watcher.target}
            /\ UNCHANGED committed
    /\ UNCHANGED <<circle, db_vars, next, gossip, events, hosts, myVShards, sched, crd, faults>>

AddCheck ==
    /\ watcher.stage = "add"
    /\ sched' = sched \cup {watcher.target}
    /\ missed' = missed \ {watcher.target}
    /\ CommitMessage
    /\ UNCHANGED <<circle, db_vars, next, gossip, events, sharder, crd, faults>>

RemoveCheck ==
    /\ watcher.stage = "remove"
    /\ sched' = sched \ {watcher.target}
    /\ watcher' = [watcher EXCEPT !.stage = "unlink"]
    /\ UNCHANGED <<circle, db_vars, next, committed, gossip, events, sharder, crd, missed, faults>>

RemoveTargetLink ==
    /\ watcher.stage = "unlink"
    /\ links' = links \ {watcher.target}
    /\ CommitMessage
    /\ UNCHANGED <<circle, db_vars, next, gossip, events, hosts, myVShards, sched, crd, missed, faults>>
-----------------------------------------------------------------------------
MembershipStep == HandleMembershipEvent \/ AddNewMember \/ DropTarget \/ RemoveMember
                  \/ GetTargets \/ GetSettingsForTargetGroups \/ ScheduleTargets

WatcherStep == JoinTopic \/ FetchMessage \/ ReadSettings \/ LinkTarget \/ AddCheck
               \/ RemoveCheck \/ RemoveTargetLink

Next ==
    \/ \E t \in Targets : AddEndpoints(t) \/ RemoveEndpoints(t)
    \/ CreateSettings
    \/ \E n \in Others : \/ Gossip(n, "NodeJoin", "Alive")
                         \/ \E state \in {"Left", "Dead"} : Gossip(n, "NodeLeave", state)
    \/ MembershipStep \/ FetchFails
    \/ WatcherStep \/ ReadSettingsFails
    \/ Restart

\* Each goroutine keeps running; calls to the database fail finitely often.
Fairness == WF_vars(MembershipStep) /\ WF_vars(WatcherStep)

Spec == Init /\ [][Next]_vars /\ Fairness
-----------------------------------------------------------------------------
Stages == {"idle", "get", "settings", "apply", "added", "drop", "removed"}
WatcherStages == {"off", "join", "idle", "settings", "link", "add", "remove", "unlink"}

\* The state stays in range; in particular a worker always finds itself on the circle and the
\* committed offset never passes the messages fetched (coordinator.go, sharder.go, watcher.go).
TypeOK ==
    /\ circle \in Circles /\ db \subseteq Targets /\ settings \in BOOLEAN
    /\ next \in 0 .. Len(log) /\ committed \in -1 .. next
    /\ known \subseteq Others /\ Me \in hosts /\ hosts \subseteq Nodes
    /\ myVShards \subseteq VShards
    /\ links \subseteq Targets /\ sched \subseteq Targets /\ missed \subseteq Targets
    /\ crd.stage \in Stages /\ watcher.stage \in WatcherStages

\* Between two membership events the shards the worker believes to own, which it only updates by
\* the difference (AddNewMember, RemoveMember), are those the circle gives it, which NeedHandle asks.
MyVShardsFollowCircle ==
    crd.stage \notin {"added", "removed"} =>
        myVShards = {v \in VShards : Me \in GetNodeIDsByVshard(v)}

\* Every row of one of the worker's shards is checked once its goroutines are idle, whether it was
\* written before or after a takeover read the table (FetchTargets, HandleTargetEvents).  Left out are
\* the targets an error passed over and those whose link was left behind without a check.
Covered(t) == t \in sched \/ t \in links \/ t \in missed
TakeoverMissesNothing ==
    crd.stage = "idle" /\ watcher.stage = "idle" /\ next = Len(log) =>
        \A t \in db : NeedHandle(t) => Covered(t)

\* A row of one of the worker's shards does not stay unchecked: the goroutines reach it.
EventuallyChecked ==
    \A t \in Targets : t \in db /\ NeedHandle(t) ~> (t \notin db \/ ~NeedHandle(t) \/ Covered(t))
=============================================================================
