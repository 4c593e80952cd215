-------------------------- MODULE EndpointStatuses --------------------------
(***************************************************************************)
(* How an agent learns the health of endpoints and applies it.             *)
(*   src/nlb-agent/internal/endpointshc and, of reconciler/worker.go, what *)
(*   a worker does with the statuses                                       *)
(*                                                                         *)
(* The rows of the health check service reach the agent in two ways: a     *)
(* goroutine fetches all statuses of a target group, and a watcher reads   *)
(* the changes of the rows from a Kafka topic.  Both end in                *)
(* updateEndpointStatuses, under a lock that is held until a task is sent. *)
(* A worker compares the generation of the statuses with the one it        *)
(* applied last.  The ports of endpoints are left out, as EpHdrKey does:   *)
(* an endpoint here is an address.  The fetch's three attempts are one.    *)
(***************************************************************************)
EXTENDS Integers, Sequences, FiniteSets, Functions

CONSTANTS TargetGroups, Endpoints,
          TaskChanCap,
          MaxRows, MaxWatches, MaxFaults   \* bounds: row changes, placements, failures

ASSUME StatusesAssumption ==
    /\ TaskChanCap \in Nat \ {0}
    /\ {MaxRows, MaxWatches, MaxFaults} \subseteq Nat

VARIABLES rows, topic,  \* of the health check service, and their changes
          desired,      \* target groups the agent has stored
          watched,      \* handlingTargetGroups
          statuses,     \* actualStatuses
          guard,        \* who holds actualStatusesGuard while sending a task
          tasks,        \* length of reconcileTaskChan
          sync, reader, stopping,  \* goroutines: Run, the watcher, the scheduler
          worker, applied, cachedGen,
          watches, faults, missed

serviceVars == <<rows, topic>>
workerVars == <<worker, applied, cachedGen>>
vars == <<serviceVars, desired, watched, statuses, guard, tasks, sync, reader, stopping,
          workerVars, watches, faults, missed>>

Empty == <<>>
Put(f, k, v) == [x \in DOMAIN f \cup {k} |-> IF x = k THEN v ELSE f[x]]
Without(f, ks) == Restrict(f, DOMAIN f \ ks)

Free == "free"
NoSync == [pc |-> "idle", tgs |-> {}]
NoReader == [pos |-> -1, committed |-> -1, pc |-> "idle"]
IdleWorker == [pc |-> "idle"]

Init ==
    /\ rows = [tg \in TargetGroups |-> [e \in Endpoints |-> [up |-> TRUE, at |-> 0]]]
    /\ topic = <<>>
    /\ desired = {} /\ watched = {} /\ statuses = Empty
    /\ guard = Free /\ tasks = 0
    /\ sync = NoSync /\ reader = NoReader /\ stopping = {}
    /\ worker = IdleWorker /\ applied = Empty /\ cachedGen = Empty
    /\ watches = 0 /\ faults = 0 /\ missed = FALSE

-----------------------------------------------------------------------------
(* The health check service writes or deletes a row.                       *)
ChangeRow(tg, e) ==
    LET at == Len(topic) + 1
        put(up) == /\ e \in DOMAIN rows[tg] => rows[tg][e].up # up
                   /\ rows' = [rows EXCEPT ![tg] = Put(@, e, [up |-> up, at |-> at])]
                   /\ topic' = Append(topic, [op |-> "u", tg |-> tg, ep |-> e, up |-> up, at |-> at])
    IN  /\ Len(topic) < MaxRows
        /\ \/ put(TRUE) \/ put(FALSE)
           \/ /\ e \in DOMAIN rows[tg]
              /\ rows' = [rows EXCEPT ![tg] = Without(@, {e})]
              /\ topic' = Append(topic, [op |-> "d", tg |-> tg, ep |-> e, up |-> FALSE, at |-> at])
        /\ UNCHANGED <<desired, watched, statuses, guard, tasks, sync, reader, stopping,
                       workerVars, watches, faults, missed>>

-----------------------------------------------------------------------------
(* updateEndpointStatuses: an older status is ignored, and the generation  *)
(* grows when a status is new or changes.                                  *)
AcceptsAny(old, new) == TRUE
Accepts(old, new) == ~(old.at > new.at)

Known(tg) == IF tg \in DOMAIN statuses THEN statuses[tg] ELSE [gen |-> 0, of |-> Empty]

UpdateEndpointStatuses(who, tg, new) ==
    LET known == Known(tg)
        fresh == DOMAIN new \ DOMAIN known.of
        later == {e \in DOMAIN new \cap DOMAIN known.of : Accepts(known.of[e], new[e])}
        flipped == {e \in later : known.of[e].up # new[e].up}
        changed == fresh \cup flipped # {}
    IN  /\ guard = Free
        /\ statuses' = Put(statuses, tg,
              [gen |-> known.gen + (IF changed THEN 1 ELSE 0),
               of |-> [e \in DOMAIN known.of \cup fresh |->
                         IF e \in fresh \cup later THEN new[e] ELSE known.of[e]]])
        /\ guard' = IF changed THEN who ELSE Free

(* The task channel is filled while the lock is held, and emptied by a     *)
(* loop that needs no lock.                                                *)
SendsAnyway == TRUE
HasRoom == tasks < TaskChanCap

TriggerReconciliation ==
    /\ guard # Free /\ HasRoom
    /\ tasks' = tasks + 1 /\ guard' = Free
    /\ UNCHANGED <<serviceVars, desired, watched, statuses, sync, reader, stopping, workerVars,
                   watches, faults, missed>>

TakeTask ==
    /\ tasks > 0
    /\ tasks' = tasks - 1
    /\ UNCHANGED <<serviceVars, desired, watched, statuses, guard, sync, reader, stopping,
                   workerVars, watches, faults, missed>>

-----------------------------------------------------------------------------
(* The scheduler stores a new target group and watches it; it stops the    *)
(* watch of one that is removed, under two locks one after the other.      *)
WatchForTargetGroup(tg) ==
    /\ tg \notin desired /\ stopping = {} /\ watches < MaxWatches
    /\ watches' = watches + 1
    /\ missed' = (missed \/ tg \in DOMAIN applied \/ (worker.pc # "idle" /\ worker.tg = tg))
    /\ desired' = desired \cup {tg} /\ watched' = watched \cup {tg}
    /\ UNCHANGED <<serviceVars, statuses, guard, tasks, sync, reader, stopping, workerVars, faults>>

StopWatch(tg) ==
    /\ tg \in desired /\ stopping = {}
    /\ watched' = watched \ {tg} /\ stopping' = {tg}
    /\ UNCHANGED <<serviceVars, desired, statuses, guard, tasks, sync, reader, workerVars, watches, faults, missed>>

StopWatchStatuses ==
    /\ stopping # {} /\ guard = Free
    /\ statuses' = Without(statuses, stopping)
    /\ desired' = desired \ stopping /\ stopping' = {}
    /\ UNCHANGED <<serviceVars, watched, guard, tasks, sync, reader, workerVars, watches, faults, missed>>

-----------------------------------------------------------------------------
(* Run: the ticker, or the signal of a new watch, which only hastens it,   *)
(* makes it collect the watched target groups.  SyncStatuses puts each of  *)
(* them back among the watched ones, fetches and applies their statuses.   *)
(* lastResyncTime is never set, so every one is fetched every time.        *)
CollectWatched ==
    /\ sync.pc = "idle" /\ watched # {}
    /\ sync' = [pc |-> "enter", tgs |-> watched]
    /\ UNCHANGED <<serviceVars, desired, watched, statuses, guard, tasks, reader, stopping, workerVars,
                   watches, faults, missed>>

NeedsNoFetch(tgs) == {}
NeedFetch(tgs) == tgs

EnterSync ==
    /\ sync.pc = "enter"
    /\ watched' = watched \cup sync.tgs
    /\ sync' = [pc |-> "fetch", tgs |-> NeedFetch(sync.tgs), rows |-> Empty]
    /\ UNCHANGED <<serviceVars, desired, statuses, guard, tasks, reader, stopping, workerVars,
                   watches, faults, missed>>

Fetch(tg) ==
    /\ sync.pc = "fetch" /\ tg \in sync.tgs
    /\ \/ /\ sync' = [sync EXCEPT !.tgs = @ \ {tg}, !.rows = Put(@, tg, rows[tg])]
          /\ UNCHANGED faults
       \/ /\ faults < MaxFaults /\ faults' = faults + 1
          /\ sync' = [sync EXCEPT !.tgs = @ \ {tg}]
    /\ UNCHANGED <<serviceVars, desired, watched, statuses, guard, tasks, reader, stopping,
                   workerVars, watches, missed>>

ApplyFetched(tg) ==
    /\ sync.pc = "fetch" /\ tg \in DOMAIN sync.rows
    /\ UpdateEndpointStatuses("sync", tg, sync.rows[tg])
    /\ sync' = [sync EXCEPT !.rows = Without(@, {tg})]
    /\ UNCHANGED <<serviceVars, desired, watched, tasks, reader, stopping, workerVars,
                   watches, faults, missed>>

(* wg.Wait                                                                 *)
FinishSync ==
    /\ sync.pc = "fetch" /\ sync.tgs = {} /\ sync.rows = Empty /\ guard # "sync"
    /\ sync' = NoSync
    /\ UNCHANGED <<serviceVars, desired, watched, statuses, guard, tasks, reader, stopping,
                   workerVars, watches, faults, missed>>

-----------------------------------------------------------------------------
(* The watcher.  A consumer group without an offset begins at the end.     *)
JoinTopic ==
    /\ reader.pos = -1 /\ sync.pc = "idle"
    /\ reader' = [reader EXCEPT !.pos = IF reader.committed = -1 THEN Len(topic) ELSE reader.committed]
    /\ UNCHANGED <<serviceVars, desired, watched, statuses, guard, tasks, sync, stopping,
                   workerVars, watches, faults, missed>>

FetchMessage ==
    /\ reader.pc = "idle" /\ reader.pos # -1 /\ reader.pos < Len(topic)
    /\ LET m == topic[reader.pos + 1] IN
       reader' = [reader EXCEPT !.pos = @ + 1,
                                !.pc = IF m.op = "u" /\ m.tg \notin watched THEN "idle" ELSE "apply"]
    /\ UNCHANGED <<serviceVars, desired, watched, statuses, guard, tasks, sync, stopping,
                   workerVars, watches, faults, missed>>

RemoveEndpoint(tg, e) ==
    /\ guard = Free
    /\ IF tg \in DOMAIN statuses
       THEN /\ statuses' = [statuses EXCEPT ![tg] = [gen |-> @.gen + 1, of |-> Without(@.of, {e})]]
            /\ guard' = "reader"
       ELSE UNCHANGED <<statuses, guard>>

HandleMessage ==
    LET m == topic[reader.pos] IN
    /\ reader.pc = "apply"
    /\ IF m.op = "u"
       THEN UpdateEndpointStatuses("reader", m.tg, Put(Empty, m.ep, [up |-> m.up, at |-> m.at]))
       ELSE RemoveEndpoint(m.tg, m.ep)
    /\ reader' = [reader EXCEPT !.pc = "commit"]
    /\ UNCHANGED <<serviceVars, desired, watched, tasks, sync, stopping, workerVars,
                   watches, faults, missed>>

CommitMessage ==
    /\ reader.pc = "commit" /\ guard # "reader"
    /\ \/ reader' = [reader EXCEPT !.pc = "idle", !.committed = reader.pos] /\ UNCHANGED faults
       \/ /\ faults < MaxFaults /\ faults' = faults + 1
          /\ reader' = [reader EXCEPT !.pc = "idle"]
    /\ UNCHANGED <<serviceVars, desired, watched, statuses, guard, tasks, sync, stopping,
                   workerVars, watches, missed>>

-----------------------------------------------------------------------------
(* A worker, started by a task or by the ticker.  It reads the generation, *)
(* then the statuses one after the other, applies them and keeps the       *)
(* generation; an endpoint without a status is not healthy.  The mutant    *)
(* keeps the generation of the end.                                        *)
Gen(tg) == IF tg \in DOMAIN statuses THEN <<statuses[tg].gen>> ELSE <<>>
CachedGen(tg) == IF tg \in DOMAIN cachedGen THEN <<cachedGen[tg]>> ELSE <<>>
Healthy(tg, e) == tg \in DOMAIN statuses /\ e \in DOMAIN statuses[tg].of /\ statuses[tg].of[e].up

StartTask(tg) ==
    LET stateChanges == Gen(tg) \notin {<<>>, CachedGen(tg)} IN
    /\ worker.pc = "idle" /\ guard = Free
    /\ \/ /\ tg \in desired
          /\ tg \notin DOMAIN applied \/ stateChanges
          /\ worker' = [pc |-> "read", tg |-> tg, gen |-> Gen(tg), left |-> Endpoints, up |-> {}]
          /\ UNCHANGED applied
       \/ /\ tg \notin desired /\ tg \in DOMAIN applied
          /\ applied' = Without(applied, {tg})
          /\ UNCHANGED worker
    /\ UNCHANGED <<serviceVars, desired, watched, statuses, guard, tasks, sync, reader, stopping,
                   cachedGen, watches, faults, missed>>

ReadStatus(e) ==
    /\ worker.pc = "read" /\ e \in worker.left /\ guard = Free
    /\ worker' = [worker EXCEPT !.left = @ \ {e}, !.up = IF Healthy(worker.tg, e) THEN @ \cup {e} ELSE @]
    /\ UNCHANGED <<serviceVars, desired, watched, statuses, guard, tasks, sync, reader, stopping,
                   applied, cachedGen, watches, faults, missed>>

GenerationAtEnd(w) == IF Gen(w.tg) = <<>> THEN 0 ELSE Gen(w.tg)[1]
AppliedGeneration(w) == IF w.gen = <<>> THEN 0 ELSE w.gen[1]

ApplyStatuses ==
    /\ worker.pc = "read" /\ worker.left = {}
    /\ applied' = Put(applied, worker.tg, worker.up)
    /\ cachedGen' = Put(cachedGen, worker.tg, AppliedGeneration(worker))
    /\ worker' = IdleWorker
    /\ UNCHANGED <<serviceVars, desired, watched, statuses, guard, tasks, sync, reader, stopping,
                   watches, faults, missed>>

-----------------------------------------------------------------------------
(* The agent's process restarts: main fetches the statuses of what is      *)
(* stored before it opens the topic.                                       *)
Restart ==
    /\ faults < MaxFaults /\ faults' = faults + 1
    /\ watched' = desired /\ statuses' = Empty /\ guard' = Free /\ tasks' = 0
    /\ sync' = [pc |-> "enter", tgs |-> desired]
    /\ reader' = [NoReader EXCEPT !.committed = reader.committed]
    /\ worker' = IdleWorker /\ applied' = Empty /\ cachedGen' = Empty /\ stopping' = {}
    /\ UNCHANGED <<serviceVars, desired, watches, missed>>

Syncing == CollectWatched \/ EnterSync \/ FinishSync \/ \E tg \in TargetGroups : Fetch(tg) \/ ApplyFetched(tg)
Reading == JoinTopic \/ FetchMessage \/ HandleMessage \/ CommitMessage
Working == \/ \E tg \in TargetGroups : StartTask(tg)
           \/ \E e \in Endpoints : ReadStatus(e)
           \/ ApplyStatuses

Next ==
    \/ \E tg \in TargetGroups : WatchForTargetGroup(tg) \/ StopWatch(tg)
    \/ \E tg \in TargetGroups, e \in Endpoints : ChangeRow(tg, e)
    \/ StopWatchStatuses \/ TriggerReconciliation \/ TakeTask
    \/ Syncing \/ Reading \/ Working \/ Restart

Spec == Init /\ [][Next]_vars

(* The goroutines run.                                                     *)
Fairness ==
    /\ WF_vars(TriggerReconciliation) /\ WF_vars(TakeTask) /\ WF_vars(StopWatchStatuses)
    /\ WF_vars(Syncing) /\ WF_vars(Reading) /\ WF_vars(Working)

FairSpec == Spec /\ Fairness

-----------------------------------------------------------------------------
TypeOK ==
    /\ DOMAIN statuses \subseteq TargetGroups /\ guard \in {Free, "sync", "reader"}
    /\ \A tg \in DOMAIN statuses : DOMAIN statuses[tg].of \subseteq Endpoints
    /\ reader.pos \in -1 .. Len(topic) /\ reader.committed \in -1 .. Len(topic)
    /\ tasks \in 0 .. TaskChanCap
    /\ DOMAIN applied \subseteq TargetGroups /\ DOMAIN cachedGen \subseteq TargetGroups

(* A worker that skips a target group because the generation is the one it *)
(* applied has applied the statuses there are: the generation it kept was  *)
(* read before the statuses, whatever was fetched or read from the topic   *)
(* meanwhile (worker.go:139-144, 184-204, service.go:273-276).  A target   *)
(* group that is given back before the worker saw it removed is left out,  *)
(* since its generations begin again.                                      *)
SkippedIsApplied ==
    \A tg \in desired \cap DOMAIN applied \cap DOMAIN cachedGen :
        ~missed /\ stopping = {} /\ Gen(tg) = <<cachedGen[tg]>> /\ (worker.pc = "idle" \/ worker.tg # tg) =>
            applied[tg] = {e \in Endpoints : Healthy(tg, e)}

(* A status never makes room for an older one while its target group stays *)
(* watched, in whichever order the fetch and the topic deliver them; only  *)
(* a deletion takes it away (service.go:260-263).                          *)
NeverOlder ==
    [][\A tg \in DOMAIN statuses \cap DOMAIN statuses' :
          \A e \in DOMAIN statuses[tg].of \cap DOMAIN statuses'[tg].of :
              statuses[tg].of[e].at <= statuses'[tg].of[e].at]_statuses

(* The health of every endpoint that has a row is applied in the end, for  *)
(* every target group that stays: although messages are skipped or read    *)
(* twice, fetches fail, and a lock is held while a task is sent.           *)
HealthApplied ==
    [](~missed) => \A tg \in TargetGroups :
        <>[](tg \in desired) =>
            <>[](\A e \in DOMAIN rows[tg] : tg \in DOMAIN applied /\ (e \in applied[tg] <=> rows[tg][e].up))
=============================================================================
