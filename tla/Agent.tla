-------------------------------- MODULE Agent --------------------------------
(***************************************************************************)
(* The agent of one data plane node: the scheduler that polls the control  *)
(* plane and stores what is desired, the reconciler's dispatching loop and *)
(* its worker, and the IPVS back end.                                      *)
(*   src/nlb-agent/internal/{scheduler,control-plane,storage,reconciler,   *)
(*   vpp/ipvsvpp}, cmd/agent                                               *)
(*                                                                         *)
(* What is desired is on disk (bbolt) and survives the process; a write is *)
(* on disk before it is in the cache and both are changed under one lock,  *)
(* so that one variable stands for the two.  What is actual is in memory   *)
(* only, and the kernel's services survive the process.  The health of the *)
(* endpoints (module EndpointStatuses) is an input here.                   *)
(***************************************************************************)
EXTENDS Integers, Sequences, FiniteSets, Functions, SequencesExt

CONSTANTS TargetGroups, Endpoints,
          Events,                \* entries of changelogs; weight 0 is an entry that removes
          HealthyEndpoints,      \* sets of endpoints that are healthy together
          Ports, FirstPort,      \* of services; the address of one is 0.0.0.0:port
          MaxReconcileAttempts, TaskChanCap,
          MaxChanges, MaxPlacements, MaxStatuses, MaxFaults  \* bounds of the environment

ASSUME AgentAssumption ==
    /\ Events \subseteq [ep : Endpoints, w : Nat] /\ FirstPort \in [TargetGroups -> Ports]
    /\ HealthyEndpoints \subseteq SUBSET Endpoints
    /\ MaxReconcileAttempts \in Nat \ {0} /\ TaskChanCap \in Nat \ {0}
    /\ {MaxChanges, MaxPlacements, MaxStatuses, MaxFaults} \subseteq Nat

VARIABLES cp,       \* what the control plane answers polls from
          stored,   \* desired: placement version, specs, endpoints
          actual,   \* actualSpecs and actualEndpoints
          kernel,   \* IPVS: the destinations, with their weights, of every service
          known,    \* IPVSVPP.specs
          health,   \* statuses of the watched target groups
          cachedGen,\* TgEndpointsStateCache
          sched,    \* the scheduler's goroutine inside runIteration
          tasks,    \* reconcileTaskChan
          queue, pending, worker,  \* a worker
          faults    \* how often the process died, a call failed, a batch of commands failed half-way,
                    \* the new endpoints failed when the old ones were deleted

vppVars == <<kernel, known>>
workerVars == <<queue, pending, worker>>
vars == <<cp, stored, actual, vppVars, health, cachedGen, sched, tasks, workerVars, faults>>

Empty == <<>>   \* the function with no arguments
Put(f, k, v) == [x \in DOMAIN f \cup {k} |-> IF x = k THEN v ELSE f[x]]
Without(f, ks) == Restrict(f, DOMAIN f \ ks)

IdleSched == [pc |-> "idle"]
IdleWorker == [pc |-> "idle"]

Has(f, tg) == tg \in DOMAIN f

(* The endpoints a changelog leads to, entry by entry.                     *)
ApplyEvent(resultSet, e) ==
    IF e.w = 0 THEN Without(resultSet, {e.ep}) ELSE Put(resultSet, e.ep, e.w)

ConstructEndpoints(eps, log) ==
    LET resultSet[i \in 0 .. Len(log)] ==
            IF i = 0 THEN eps ELSE ApplyEvent(resultSet[i - 1], log[i])
    IN  resultSet[Len(log)]

(* The node comes up when the control plane has placed target groups on    *)
(* it, each with a spec and an endpoint.                                   *)
Init ==
    /\ LET e == CHOOSE e \in Endpoints : TRUE IN
          cp = [placements |-> <<TargetGroups>>,
                specs |-> [tg \in TargetGroups |-> <<FirstPort[tg]>>],
                log |-> [tg \in TargetGroups |-> <<[ep |-> e, w |-> 1]>>], changes |-> 0]
    /\ stored = [version |-> 0, spec |-> Empty, eps |-> Empty]
    /\ actual = [spec |-> Empty, eps |-> Empty]
    /\ kernel = Empty /\ known = Empty
    /\ health = [watched |-> {}, of |-> Empty, changes |-> 0]
    /\ cachedGen = Empty
    /\ sched = IdleSched
    /\ tasks = <<>>
    /\ queue = <<>> /\ pending = {} /\ worker = IdleWorker
    /\ faults = [crash |-> 0, error |-> 0, partial |-> 0, half |-> 0, panic |-> 0]

Fault(k) ==
    /\ faults.crash + faults.error + faults.partial + faults.half < MaxFaults
    /\ faults' = [faults EXCEPT ![k] = @ + 1]

-----------------------------------------------------------------------------
(* The control plane.                                                      *)
Change(tg) ==
    /\ cp.changes < MaxChanges
    /\ \/ \E p \in Ports : cp' = [cp EXCEPT !.specs[tg] = Append(@, p), !.changes = @ + 1]
       \/ \E e \in Events : cp' = [cp EXCEPT !.log[tg] = Append(@, e), !.changes = @ + 1]
    /\ UNCHANGED <<stored, actual, vppVars, health, cachedGen, sched, tasks, workerVars, faults>>

ChangePlacement(tgs) ==
    /\ Len(cp.placements) < MaxPlacements /\ tgs # Last(cp.placements)
    /\ cp' = [cp EXCEPT !.placements = Append(@, tgs)]
    /\ UNCHANGED <<stored, actual, vppVars, health, cachedGen, sched, tasks, workerVars, faults>>

(* The health checks: statuses of a watched target group change, its       *)
(* generation grows and a task is sent.                                    *)
StatusesChange(tg, up) ==
    LET gen == IF Has(health.of, tg) THEN health.of[tg].gen + 1 ELSE 1 IN
    /\ tg \in health.watched /\ health.changes < MaxStatuses
    /\ Has(health.of, tg) => health.of[tg].up # up
    /\ Len(tasks) < TaskChanCap
    /\ health' = [health EXCEPT !.of = Put(@, tg, [gen |-> gen, up |-> up]), !.changes = @ + 1]
    /\ tasks' = Append(tasks, {tg})
    /\ UNCHANGED <<cp, stored, actual, vppVars, cachedGen, sched, workerVars, faults>>

-----------------------------------------------------------------------------
(* runIteration of the scheduler: GetPlacement, PollUpdatesIfExists and    *)
(* UpdateDesired.  Nothing else changes what is stored, so the request and *)
(* its answer are one step; the answer may lack the spec of a new group.   *)
StoredVersion(tg) == IF Has(stored.eps, tg) THEN stored.eps[tg].ver ELSE 0

TargetGroupChange(tg, from, specVer) ==
    [tg |-> tg,
     spec |-> IF Len(cp.specs[tg]) > specVer THEN <<Last(cp.specs[tg])>> ELSE <<>>,
     specVer |-> Len(cp.specs[tg]),
     log |-> SubSeq(cp.log[tg], from + 1, Len(cp.log[tg])),
     ver |-> Len(cp.log[tg])]

Reply ==
    LET tgs == Last(cp.placements)
        held == DOMAIN stored.spec
        changed == stored.version < Len(cp.placements)
    IN  [version |-> Len(cp.placements),
         update |-> {c \in {TargetGroupChange(tg, StoredVersion(tg), stored.spec[tg].ver) : tg \in held \cap tgs} :
                        c.spec # <<>> \/ c.log # <<>>},
         add |-> IF changed THEN {TargetGroupChange(tg, 0, 0) : tg \in tgs \ held} ELSE {},
         remove |-> IF changed THEN held \ tgs ELSE {}]

Send(r) == {c.tg : c \in r.update \cup r.add} \cup r.remove

(* The stages of UpdateDesired, without the ones that have nothing to do.  *)
Stage(s) ==
    [s EXCEPT !.pc = IF s.update # {} THEN "update" ELSE IF s.add # {} THEN "add"
                     ELSE IF s.remove # {} THEN "remove" ELSE "save"]

StartUpdate(r) ==
    sched' = Stage([pc |-> "start", cur |-> <<>>, update |-> r.update, add |-> r.add,
                    remove |-> r.remove, version |-> r.version, send |-> Send(r)])

Poll ==
    /\ sched.pc = "idle"
    /\ Reply.update # {} \/ Reply.add # {} \/ Reply.remove # {} \/ stored.version < Reply.version
    /\ \/ StartUpdate(Reply) /\ UNCHANGED faults
       \/ /\ Reply.add # {} /\ Fault("error")
          /\ \E c \in Reply.add :
                StartUpdate([Reply EXCEPT !.add = (@ \ {c}) \cup {[c EXCEPT !.spec = <<>>]}])
    /\ UNCHANGED <<cp, stored, actual, vppVars, health, cachedGen, tasks, workerVars>>

(* SetDesiredSpec and SetDesiredEndpoints; a failed write changes nothing. *)
SetDesiredSpec(c) ==
    IF Has(stored.spec, c.tg) /\ stored.spec[c.tg].ver >= c.specVer
    THEN stored
    ELSE [stored EXCEPT !.spec = Put(@, c.tg, [ver |-> c.specVer, port |-> c.spec[1]])]

SetDesiredEndpoints(c, eps) ==
    IF Has(stored.eps, c.tg) /\ stored.eps[c.tg].ver >= c.ver
    THEN stored
    ELSE [stored EXCEPT !.eps = Put(@, c.tg, [ver |-> c.ver, eps |-> eps])]

WriteOrFail(new) == \/ stored' = new /\ UNCHANGED faults
                    \/ stored' = stored /\ Fault("error")

(* updateTargetGroups goes on after a failed write.  A changelog continues *)
(* the stored endpoints; the mutant takes it for the whole.                *)
EndpointsOfChangelog(c) == ConstructEndpoints(Empty, c.log)
UpdatedEndpoints(c) ==
    ConstructEndpoints(IF Has(stored.eps, c.tg) THEN stored.eps[c.tg].eps ELSE Empty, c.log)

UpdateTargetGroups ==
    /\ sched.pc = "update"
    /\ IF sched.cur # <<>>
       THEN LET c == sched.cur[1] IN
            /\ WriteOrFail(IF c.log # <<>> THEN SetDesiredEndpoints(c, UpdatedEndpoints(c)) ELSE stored)
            /\ sched' = Stage([sched EXCEPT !.cur = <<>>])
       ELSE \E c \in sched.update :
              /\ WriteOrFail(IF c.spec # <<>> THEN SetDesiredSpec(c) ELSE stored)
              /\ sched' = [sched EXCEPT !.cur = <<c>>, !.update = @ \ {c}]
    /\ UNCHANGED <<cp, actual, vppVars, health, cachedGen, tasks, workerVars>>

(* addNewTargetGroups returns when a spec is missing or cannot be stored,  *)
(* and goes on when endpoints cannot.                                      *)
SkipAdd(c) == sched' = Stage([sched EXCEPT !.add = @ \ {c}])
AbandonAdd(c) == sched' = IdleSched

AddNewTargetGroups ==
    /\ sched.pc = "add"
    /\ IF sched.cur # <<>>
       THEN LET c == sched.cur[1] IN
            /\ WriteOrFail(SetDesiredEndpoints(c, EndpointsOfChangelog(c)))
            /\ sched' = Stage([sched EXCEPT !.cur = <<>>])
            /\ UNCHANGED health
       ELSE \E c \in sched.add :
              \/ /\ c.spec # <<>>
                 /\ stored' = SetDesiredSpec(c)
                 /\ health' = [health EXCEPT !.watched = @ \cup {c.tg}]
                 /\ sched' = [sched EXCEPT !.cur = <<c>>, !.add = @ \ {c}]
                 /\ UNCHANGED faults
              \/ /\ IF c.spec = <<>> THEN UNCHANGED faults ELSE Fault("error")
                 /\ AbandonAdd(c)
                 /\ UNCHANGED <<stored, health>>
    /\ UNCHANGED <<cp, actual, vppVars, cachedGen, tasks, workerVars>>

(* removeTargetGroups: the watch is stopped whether or not DeleteDesired,  *)
(* one transaction for all of them, succeeds.                              *)
DeletedSpecs(ids) == [stored EXCEPT !.spec = Without(@, ids)]
DeletedDesired(ids) == [stored EXCEPT !.spec = Without(@, ids), !.eps = Without(@, ids)]

RemoveTargetGroups ==
    /\ sched.pc = "remove"
    /\ health' = [health EXCEPT !.watched = @ \ sched.remove, !.of = Without(@, sched.remove)]
    /\ \/ /\ stored' = DeletedDesired(sched.remove)
          /\ sched' = [sched EXCEPT !.pc = "save"]
          /\ UNCHANGED faults
       \/ /\ Fault("error")
          /\ sched' = IdleSched
          /\ UNCHANGED stored
    /\ UNCHANGED <<cp, actual, vppVars, cachedGen, tasks, workerVars>>

SavePlacementVersion ==
    /\ sched.pc = "save"
    /\ \/ /\ stored' = IF sched.version <= stored.version THEN stored ELSE [stored EXCEPT !.version = sched.version]
          /\ sched' = [pc |-> "send", send |-> sched.send]
          /\ UNCHANGED faults
       \/ /\ sched.version > stored.version /\ Fault("error")
          /\ sched' = IdleSched
          /\ UNCHANGED stored
    /\ UNCHANGED <<cp, actual, vppVars, health, cachedGen, tasks, workerVars>>

MakeReconcileEvent ==
    /\ sched.pc = "send" /\ Len(tasks) < TaskChanCap
    /\ tasks' = IF sched.send = {} THEN tasks ELSE Append(tasks, sched.send)
    /\ sched' = IdleSched
    /\ UNCHANGED <<cp, stored, actual, vppVars, health, cachedGen, workerVars, faults>>

-----------------------------------------------------------------------------
(* The loop of Reconciler.Run: the ticker and the tasks that are sent name *)
(* target groups, each of which is enqueued.  enqueue drops a task whose   *)
(* target group is pending, and one that finds the queue, of one element,  *)
(* full.                                                                   *)
AllTargetGroupIDs == DOMAIN stored.spec \cup DOMAIN actual.spec

Enqueue(task) ==
    IF task.attempt > MaxReconcileAttempts \/ task.tg \in pending \/ queue # <<>>
    THEN UNCHANGED <<queue, pending>>
    ELSE queue' = <<task>> /\ pending' = pending \cup {task.tg}

ForceReconcile(tg) ==
    /\ tg \in AllTargetGroupIDs
    /\ Enqueue([tg |-> tg, attempt |-> 1])
    /\ UNCHANGED <<cp, stored, actual, vppVars, health, cachedGen, sched, tasks, worker, faults>>

TakeTask(tg) ==
    /\ tasks # <<>> /\ tg \in Head(tasks)
    /\ tasks' = IF Head(tasks) = {tg} THEN Tail(tasks) ELSE <<Head(tasks) \ {tg}>> \o Tail(tasks)
    /\ Enqueue([tg |-> tg, attempt |-> 1])
    /\ UNCHANGED <<cp, stored, actual, vppVars, health, cachedGen, sched, worker, faults>>

-----------------------------------------------------------------------------
(* The worker: processTask and reconcileTargetGroup.                       *)
KeptPending == pending
TakenPending == pending \ {queue[1].tg}

Take ==
    /\ worker.pc = "idle" /\ queue # <<>>
    /\ LET t == queue[1]
           begin(pc) == [pc |-> pc, tg |-> t.tg, attempt |-> t.attempt]
       IN  worker' =
             IF ~Has(stored.spec, t.tg)
             THEN IF Has(actual.spec, t.tg) THEN begin("removeEps") ELSE IdleWorker
             ELSE IF Has(actual.spec, t.tg) /\ actual.spec[t.tg].ver = stored.spec[t.tg].ver
                  THEN begin("read")
                  ELSE [pc |-> "spec", tg |-> t.tg, attempt |-> t.attempt, spec |-> stored.spec[t.tg]]
    /\ queue' = <<>> /\ pending' = TakenPending
    /\ UNCHANGED <<cp, stored, actual, vppVars, health, cachedGen, sched, tasks, faults>>

(* An error of the back end: the task is enqueued once more.  A batch of   *)
(* commands may fail when a part of it is done.                            *)
Retry(kind) ==
    /\ Fault(kind)
    /\ worker' = IdleWorker
    /\ Enqueue([tg |-> worker.tg, attempt |-> worker.attempt + 1])
Partly(eps) == (SUBSET eps) \ {eps}
RetryAfter(part) == Retry(IF part = {} THEN "error" ELSE "partial")

(* ApplySpec adds the service of the spec, which may exist already.        *)
ApplySpec(tg, port) ==
    /\ kernel' = IF port \in DOMAIN kernel THEN kernel ELSE Put(kernel, port, Empty)
    /\ known' = Put(known, tg, port)

SetActualSpec(tg, s) == actual' = [actual EXCEPT !.spec = Put(@, tg, s)]
SetActualEndpoints(tg, eps) == actual' = [actual EXCEPT !.eps = Put(@, tg, eps)]
DeleteActual(tg) == actual' = [spec |-> Without(actual.spec, {tg}), eps |-> Without(actual.eps, {tg})]

ReconcileSpec ==
    LET s == worker.spec IN
    /\ worker.pc = "spec"
    /\ \/ /\ ApplySpec(worker.tg, s.port)
          /\ SetActualSpec(worker.tg, s)
          /\ worker' = [pc |-> "read", tg |-> worker.tg, attempt |-> worker.attempt]
          /\ UNCHANGED <<queue, pending, faults>>
       \/ Retry("error") /\ UNCHANGED <<kernel, known, actual>>
    /\ UNCHANGED <<cp, stored, health, cachedGen, sched, tasks>>

Reboot ==
    /\ actual' = [spec |-> Empty, eps |-> Empty]
    /\ known' = Empty /\ cachedGen' = Empty
    /\ health' = [health EXCEPT !.watched = DOMAIN stored.spec, !.of = Empty]
    /\ sched' = IdleSched /\ tasks' = <<>>
    /\ queue' = <<>> /\ pending' = {} /\ worker' = IdleWorker
    /\ UNCHANGED <<cp, stored, kernel>>

(* The versions are read before the statuses.  With a change of the        *)
(* statuses alone and no desired endpoints, reconcileEndpoints follows a   *)
(* nil pointer and the process dies.                                       *)
Gen(tg) == IF Has(health.of, tg) THEN <<health.of[tg].gen>> ELSE <<>>

ReadVersions ==
    LET tg == worker.tg
        specChanges == Has(stored.eps, tg)
                       /\ (~Has(actual.eps, tg) \/ actual.eps[tg].ver # stored.eps[tg].ver)
        stateChanges == Gen(tg) # <<>> /\ (~Has(cachedGen, tg) \/ cachedGen[tg] # Gen(tg)[1])
    IN  /\ worker.pc = "read"
        /\ IF stateChanges /\ ~Has(stored.eps, tg)
           THEN Reboot /\ faults' = [faults EXCEPT !.panic = 1]
           ELSE /\ worker' = IF specChanges \/ stateChanges
                             THEN [pc |-> "delete", tg |-> tg, attempt |-> worker.attempt,
                                   desired |-> stored.eps[tg], gen |-> Gen(tg)]
                             ELSE IdleWorker
                /\ UNCHANGED <<cp, stored, actual, vppVars, health, cachedGen, sched, tasks,
                               queue, pending, faults>>

Healthy(tg) == IF Has(health.of, tg) THEN health.of[tg].up ELSE {}
ActualEndpoints(tg) == IF Has(actual.eps, tg) THEN actual.eps[tg].eps ELSE Empty

(* getEndpointsDiff.  An endpoint whose weight changed is listed twice in  *)
(* the new actual endpoints, and the entry read back is the later one, the *)
(* old one.  The mutant leaves an unhealthy endpoint in the kernel.        *)
DiffWithoutHealth(desired, act, up) ==
    LET new == (DOMAIN desired \cap up) \ DOMAIN act
        kept == DOMAIN desired \cap DOMAIN act \cap up
    IN  [add |-> Restrict(desired, new), delete |-> DOMAIN act \ DOMAIN desired,
         actual |-> Restrict(desired, kept \cup new)]
EndpointsDiff(desired, act, up) ==
    LET kept == DOMAIN desired \cap DOMAIN act \cap up
        new == (DOMAIN desired \cap up) \ DOMAIN act
        changed == {e \in kept : desired[e] # act[e]}
    IN  [add |-> Restrict(desired, new \cup changed),
         delete |-> changed \cup (DOMAIN act \ kept),
         actual |-> [e \in kept \cup new |-> IF e \in kept THEN act[e] ELSE desired[e]]]

(* The destinations of a target group's service; the back end does nothing *)
(* for a service that is not there ("No such service").                    *)
Deleted(tg, eps) ==
    IF Has(known, tg) /\ known[tg] \in DOMAIN kernel
    THEN [kernel EXCEPT ![known[tg]] = Without(@, eps)]
    ELSE kernel

RemoveEndpoints ==
    /\ worker.pc = "delete"
    /\ LET d == EndpointsDiff(worker.desired.eps, ActualEndpoints(worker.tg), Healthy(worker.tg)) IN
       \/ /\ kernel' = Deleted(worker.tg, d.delete)
          /\ worker' = [pc |-> "insert", tg |-> worker.tg, attempt |-> worker.attempt, add |-> d.add,
                        actual |-> [ver |-> worker.desired.ver, eps |-> d.actual], gen |-> worker.gen]
          /\ UNCHANGED <<queue, pending, faults>>
       \/ \E part \in Partly(d.delete) : RetryAfter(part) /\ kernel' = Deleted(worker.tg, part)
    /\ UNCHANGED <<cp, stored, actual, known, health, cachedGen, sched, tasks>>

Inserted(port, eps) ==
    [kernel EXCEPT ![port] = [e \in DOMAIN @ \cup DOMAIN eps |-> IF e \in DOMAIN eps THEN eps[e] ELSE @[e]]]

(* AddEndpoints edits a destination that exists; it fails when there is no *)
(* service, since another target group's removal took it away.  When it    *)
(* fails, the actual endpoints are still the ones before RemoveEndpoints.  *)
NoneDeleted(tg) == DOMAIN ActualEndpoints(tg) \subseteq DOMAIN kernel[known[tg]]

AddEndpoints ==
    LET tg == worker.tg
        exists == known[tg] \in DOMAIN kernel
    IN
    /\ worker.pc = "insert"
    /\ \/ /\ exists \/ worker.add = Empty
          /\ kernel' = IF exists THEN Inserted(known[tg], worker.add) ELSE kernel
          /\ SetActualEndpoints(tg, worker.actual)
          /\ cachedGen' = Put(cachedGen, tg, IF worker.gen = <<>> THEN 0 ELSE worker.gen[1])
          /\ worker' = IdleWorker
          /\ UNCHANGED <<queue, pending, faults>>
       \/ /\ exists
          /\ \E part \in Partly(DOMAIN worker.add) :
                /\ Retry(IF part # {} THEN "partial" ELSE IF NoneDeleted(tg) THEN "error" ELSE "half")
                /\ kernel' = Inserted(known[tg], Restrict(worker.add, part))
          /\ UNCHANGED <<actual, cachedGen>>
       \/ /\ ~exists /\ worker.add # Empty
          /\ worker' = IdleWorker
          /\ Enqueue([tg |-> tg, attempt |-> worker.attempt + 1])
          /\ UNCHANGED <<kernel, actual, cachedGen, faults>>
    /\ UNCHANGED <<cp, stored, known, health, sched, tasks>>

(* removeTG                                                                *)
RemoveTgEndpoints ==
    LET eps == DOMAIN ActualEndpoints(worker.tg) IN
    /\ worker.pc = "removeEps"
    /\ \/ /\ kernel' = Deleted(worker.tg, eps)
          /\ worker' = [worker EXCEPT !.pc = "removeSpec"]
          /\ UNCHANGED <<queue, pending, faults>>
       \/ \E part \in Partly(eps) : RetryAfter(part) /\ kernel' = Deleted(worker.tg, part)
    /\ UNCHANGED <<cp, stored, actual, known, health, cachedGen, sched, tasks>>

RemoveService(tg, port) ==
    /\ kernel' = Without(kernel, {port})
    /\ known' = Without(known, {tg})

RemoveSpec ==
    LET tg == worker.tg IN
    /\ worker.pc = "removeSpec"
    /\ \/ /\ RemoveService(tg, actual.spec[tg].port)
          /\ DeleteActual(tg)
          /\ worker' = IdleWorker
          /\ UNCHANGED <<queue, pending, faults>>
       \/ Retry("error") /\ UNCHANGED <<kernel, known, actual>>
    /\ UNCHANGED <<cp, stored, health, cachedGen, sched, tasks>>

-----------------------------------------------------------------------------
(* The process dies, or loses its lease and exits, and main runs again.    *)
Crash == Fault("crash") /\ Reboot

Scheduling == \/ Poll \/ UpdateTargetGroups \/ AddNewTargetGroups \/ RemoveTargetGroups
              \/ SavePlacementVersion \/ MakeReconcileEvent
Working == \/ Take \/ ReconcileSpec \/ ReadVersions \/ RemoveEndpoints \/ AddEndpoints
           \/ RemoveTgEndpoints \/ RemoveSpec

Next ==
    \/ \E tg \in TargetGroups : Change(tg) \/ ForceReconcile(tg) \/ TakeTask(tg)
    \/ \E tg \in TargetGroups, up \in HealthyEndpoints : StatusesChange(tg, up)
    \/ \E tgs \in SUBSET TargetGroups : ChangePlacement(tgs)
    \/ Scheduling \/ Working \/ Crash

Spec == Init /\ [][Next]_vars

(* The goroutines run, and the ticker is not starved by the channel: a     *)
(* select chooses among its ready cases at random.                         *)
Fairness ==
    /\ WF_vars(Scheduling) /\ WF_vars(Working)
    /\ \A tg \in TargetGroups : WF_vars(ForceReconcile(tg)) /\ WF_vars(TakeTask(tg))

FairSpec == Spec /\ Fairness

-----------------------------------------------------------------------------
TypeOK ==
    /\ stored.version \in 0 .. Len(cp.placements)
    /\ DOMAIN stored.spec \subseteq TargetGroups /\ DOMAIN stored.eps \subseteq DOMAIN stored.spec
    /\ DOMAIN kernel \subseteq Ports /\ DOMAIN known \subseteq TargetGroups
    /\ DOMAIN actual.eps \subseteq DOMAIN actual.spec
    /\ health.watched \subseteq TargetGroups /\ DOMAIN health.of \subseteq health.watched
    /\ tasks \in Seq(SUBSET TargetGroups) /\ Len(tasks) <= TaskChanCap /\ Len(queue) <= 1

(* The stored endpoints are the ones the changelog leads to at the stored  *)
(* version, which is all the control plane is told: a write that failed, a *)
(* crash between two writes and an answer that is applied again leave no   *)
(* entry out (reconciler.go:218-263, storage.go:370-391).                  *)
StoredFollowsChangelog ==
    \A tg \in DOMAIN stored.eps :
        stored.eps[tg].eps = ConstructEndpoints(Empty, SubSeq(cp.log[tg], 1, stored.eps[tg].ver))

(* When the stored version is the latest placement's, its target groups    *)
(* and no others are stored; the control plane sends no more additions and *)
(* removals to an agent that reports that version (reconciler.go:98-132).  *)
PlacementStored ==
    stored.version = Len(cp.placements) => DOMAIN stored.spec = Last(cp.placements)

(* Whatever is in the kernel, the worker knows of when it is between two   *)
(* tasks, so that a later task can remove it: as long as the process lives *)
(* and no batch of commands fails half-way, and until the port of a target *)
(* group changes (worker.go:159-301).                                      *)
SamePorts == \A tg \in TargetGroups : Range(cp.specs[tg]) = {FirstPort[tg]}
OwnPorts == \A s, t \in TargetGroups : FirstPort[s] = FirstPort[t] => s = t
Undisturbed ==
    faults.crash = 0 /\ faults.panic = 0 /\ faults.partial = 0 /\ SamePorts /\ OwnPorts
NothingForgotten ==
    worker.pc = "idle" /\ Undisturbed =>
        \A tg \in TargetGroups : FirstPort[tg] \in DOMAIN kernel =>
            /\ Has(actual.spec, tg)
            /\ DOMAIN kernel[FirstPort[tg]] \subseteq DOMAIN ActualEndpoints(tg)

(* Under the same conditions the kernel comes to serve exactly the desired *)
(* and healthy endpoints of the desired target groups, although tasks are  *)
(* dropped and the back end fails (reconciler.go:65-96, worker.go:37-109). *)
(* A target group that is taken away and given back is left out: its       *)
(* statuses begin again at a generation the worker may have seen already.  *)
(* So is a task whose insertions fail when its deletions are done: the     *)
(* actual endpoints still list what was deleted, and an endpoint that is   *)
(* healthy again before the retry counts as kept and is not inserted.      *)
Served(tg) ==
    IF Has(stored.spec, tg)
    THEN /\ FirstPort[tg] \in DOMAIN kernel /\ Has(stored.eps, tg)
         /\ DOMAIN kernel[FirstPort[tg]] = DOMAIN stored.eps[tg].eps \cap Healthy(tg)
    ELSE FirstPort[tg] \notin DOMAIN kernel
GivenOnce(tg) ==
    \A i, j \in DOMAIN cp.placements :
        i < j /\ tg \in cp.placements[i] /\ tg \in cp.placements[j] => tg \in cp.placements[j - 1]
EventuallyServed ==
    [](Undisturbed /\ faults.half = 0 /\ \A tg \in TargetGroups : GivenOnce(tg))
        => <>[](\A tg \in TargetGroups : Served(tg))

(* 'Stores both "desired" (from control-plane) and "actual" (applied to    *)
(* VPP) versions of each target group's spec and endpoints.'               *)
(* (storage.go:34-35): between two tasks the stored weight of an endpoint  *)
(* is the one that was applied.                                            *)
ActualWeightIsApplied ==
    worker.pc = "idle" /\ SamePorts /\ OwnPorts =>
        \A tg \in DOMAIN actual.eps : \A e \in DOMAIN actual.eps[tg].eps :
            kernel[FirstPort[tg]][e] = actual.eps[tg].eps[e]
=============================================================================
