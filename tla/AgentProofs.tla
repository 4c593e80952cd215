----------------------------- MODULE AgentProofs -----------------------------
(***************************************************************************)
(* Proofs about module Agent, for every set of target groups, endpoints,   *)
(* ports and changelog entries, and every capacity and number of attempts. *)
(*                                                                         *)
(* SchedulerInv: what is stored, together with what the scheduler still    *)
(* has to add and to remove, is the placement it is applying.              *)
(* ReconcilerInv: a port in use is one the control plane has sent for its  *)
(* target group, and the kernel holds no more than the worker has noted as *)
(* actual or, between the removal and the insertion of endpoints, will     *)
(* note.                                                                   *)
(* ChangelogInv: an answer that is not applied yet holds, of a stored      *)
(* target group, the entries that follow the version still stored and, of  *)
(* a new one, the changelog from its beginning.                            *)
(***************************************************************************)
EXTENDS Agent, WellFoundedInduction, TLAPS

SentPorts(c, tg) == Range(c.specs[tg])

CpInv ==
    /\ cp = [placements |-> cp.placements, specs |-> cp.specs, log |-> cp.log, changes |-> cp.changes]
    /\ cp.placements \in Seq(SUBSET TargetGroups) /\ cp.placements # <<>>
    /\ cp.specs \in [TargetGroups -> Seq(Ports)]
    /\ \A tg \in TargetGroups : cp.specs[tg] # <<>>

StoredOK(c, st) ==
    /\ st = [version |-> st.version, spec |-> st.spec, eps |-> st.eps]
    /\ st.version \in Nat /\ st.version <= Len(c.placements)
    /\ DOMAIN st.spec \subseteq TargetGroups /\ DOMAIN st.eps \subseteq DOMAIN st.spec
    /\ \A tg \in DOMAIN st.spec : st.spec[tg].port \in SentPorts(c, tg)

HealthInv ==
    /\ health = [watched |-> health.watched, of |-> health.of, changes |-> health.changes]
    /\ health.watched \subseteq TargetGroups /\ DOMAIN health.of \subseteq health.watched

TasksInv == tasks \in Seq(SUBSET TargetGroups) /\ Len(tasks) <= TaskChanCap
QueueOK(q) == q = <<>> \/ (\E task : q = <<task>> /\ task.tg \in TargetGroups)

(* The scheduler between two stages of UpdateDesired.                      *)
Jobs == {"update", "add", "remove", "save"}

SpecSent(c, ch) == ch.tg \in TargetGroups /\ (ch.spec # <<>> => ch.spec[1] \in SentPorts(c, ch.tg))

JobShape(s) ==
    s = [pc |-> s.pc, cur |-> s.cur, update |-> s.update, add |-> s.add, remove |-> s.remove,
         version |-> s.version, send |-> s.send]

(* The stored target groups, with the ones to add and without the ones to  *)
(* remove.                                                                 *)
Outcome(st, s) == (DOMAIN st.spec \cup {ch.tg : ch \in s.add}) \ s.remove

JobChanges(c, st, s) ==
    /\ \A ch \in s.update : ch.tg \in DOMAIN st.spec /\ SpecSent(c, ch)
    /\ \A ch \in s.add : SpecSent(c, ch)
    /\ s.remove \subseteq TargetGroups
    /\ s.version \in Nat /\ st.version <= s.version /\ s.version <= Len(c.placements)
    /\ st.version = s.version => s.add = {} /\ s.remove = {}
    /\ st.version < s.version => Outcome(st, s) = c.placements[s.version]

JobBase(c, st, s) == JobShape(s) /\ JobChanges(c, st, s)

JobOK(c, st, s) ==
    /\ JobBase(c, st, s)
    /\ s.pc # "update" => s.update = {}
    /\ s.pc \notin {"update", "add"} => s.add = {}
    /\ s.cur = <<>> \/ (s.pc \in {"update", "add"} /\ s.cur[1].tg \in DOMAIN st.spec)
    /\ s.pc = "save" => DOMAIN st.spec \cap s.remove = {}

SchedOK(c, st, s) ==
    /\ s.pc \in Jobs \cup {"idle", "send"}
    /\ s.pc # "idle" => s.send \subseteq TargetGroups
    /\ s.pc \in Jobs => JobOK(c, st, s)

(* The worker's side.                                                      *)
FaultsInv ==
    /\ faults = [crash |-> faults.crash, error |-> faults.error, partial |-> faults.partial, half |-> faults.half, panic |-> faults.panic]
    /\ faults.crash \in Nat /\ faults.error \in Nat /\ faults.partial \in Nat /\ faults.half \in Nat /\ faults.panic \in Nat

Clean(f) == f.crash = 0 /\ f.panic = 0 /\ f.partial = 0

(* A service of which the worker notes that it is there is known to the    *)
(* back end, under a port that was sent for its target group.              *)
ActualOK(c, a, kn) ==
    /\ a = [spec |-> a.spec, eps |-> a.eps]
    /\ DOMAIN a.spec \subseteq TargetGroups /\ DOMAIN a.eps \subseteq DOMAIN a.spec
    /\ DOMAIN a.spec \subseteq DOMAIN kn /\ DOMAIN kn \subseteq TargetGroups
    /\ \A tg \in DOMAIN a.spec : a.spec[tg].port \in SentPorts(c, tg)
    /\ \A tg \in DOMAIN kn : kn[tg] \in SentPorts(c, tg)

KernelPorts == DOMAIN kernel \subseteq Ports

(* A task is at work on a target group whose spec is noted, the first      *)
(* stage excepted.                                                         *)
Stages == {"read", "delete", "insert", "removeEps", "removeSpec"}

WorkerOK(c, a, w) ==
    /\ w.pc \in Stages \cup {"idle", "spec"}
    /\ w.pc = "spec" => w.tg \in TargetGroups /\ w.spec.port \in SentPorts(c, w.tg)
    /\ w.pc \in Stages => w.tg \in DOMAIN a.spec
    /\ w.pc \in {"removeEps", "removeSpec"} => w = [pc |-> w.pc, tg |-> w.tg, attempt |-> w.attempt]
    /\ w.pc = "insert" => DOMAIN w.add \subseteq DOMAIN w.actual.eps

(* The kernel holds no more than what is noted and, between the removal    *)
(* and the insertion of endpoints, no more than what will be noted.        *)
EndpointsOf(a, tg) == IF Has(a.eps, tg) THEN DOMAIN a.eps[tg].eps ELSE {}

Noted(a, k, w) ==
    \A tg \in TargetGroups : FirstPort[tg] \in DOMAIN k =>
        /\ Has(a.spec, tg)
        /\ DOMAIN k[FirstPort[tg]] \subseteq EndpointsOf(a, tg)
        /\ (w.pc = "insert" /\ w.tg = tg) => DOMAIN k[FirstPort[tg]] \subseteq DOMAIN w.actual.eps

KernelInv == Undisturbed => Noted(actual, kernel, worker)

SchedulerInv ==
    CpInv /\ StoredOK(cp, stored) /\ HealthInv /\ SchedOK(cp, stored, sched) /\ PlacementStored
WorkInv == ActualOK(cp, actual, known) /\ KernelPorts /\ WorkerOK(cp, actual, worker) /\ KernelInv
ReconcilerInv == TasksInv /\ QueueOK(queue) /\ FaultsInv /\ WorkInv

-----------------------------------------------------------------------------
(* Functions and sequences.                                                *)
LEMMA PutValues ==
  ASSUME NEW f, NEW k, NEW v
  PROVE  /\ DOMAIN Put(f, k, v) = DOMAIN f \cup {k}
         /\ Put(f, k, v)[k] = v
         /\ \A x \in DOMAIN f : x # k => Put(f, k, v)[x] = f[x]
  BY DEF Put

LEMMA WithoutValues ==
  ASSUME NEW f, NEW ks
  PROVE  /\ DOMAIN Without(f, ks) = DOMAIN f \ ks
         /\ \A x \in DOMAIN f \ ks : Without(f, ks)[x] = f[x]
  BY DEF Without, Restrict

LEMMA EmptyDomain == DOMAIN Empty = {}
  BY DEF Empty

LEMMA LastElement ==
  ASSUME NEW X, NEW s \in Seq(X), s # <<>>
  PROVE  Last(s) = s[Len(s)] /\ Last(s) \in X /\ Last(s) \in Range(s) /\ Len(s) \in Nat /\ Len(s) >= 1
<1>1. Len(s) \in Nat /\ Len(s) >= 1 /\ DOMAIN s = 1 .. Len(s)  OBVIOUS
<1>2. Len(s) \in DOMAIN s /\ s[Len(s)] \in X  BY <1>1
<1> QED  BY <1>1, <1>2 DEF Last, Range

LEMMA AppendRange ==
  ASSUME NEW X, NEW s \in Seq(X), NEW x \in X
  PROVE  /\ Append(s, x) \in Seq(X) /\ Append(s, x) # <<>> /\ Len(Append(s, x)) = Len(s) + 1
         /\ \A i \in 1 .. Len(s) : Append(s, x)[i] = s[i]
         /\ Range(s) \subseteq Range(Append(s, x))
<1>1. Append(s, x) \in Seq(X) /\ Len(Append(s, x)) = Len(s) + 1 /\ Len(s) \in Nat  OBVIOUS
<1>2. DOMAIN s = 1 .. Len(s) /\ DOMAIN Append(s, x) = 1 .. Len(s) + 1  OBVIOUS
<1>a. \A i \in 1 .. Len(s) : Append(s, x)[i] = s[i]  OBVIOUS
<1>b. Append(s, x) # <<>>
  <2>1. Len(s) + 1 \in DOMAIN Append(s, x)  BY <1>1, <1>2
  <2>2. DOMAIN <<>> = {}  OBVIOUS
  <2> QED  BY <2>1, <2>2
<1>3. \A i \in DOMAIN s : i \in DOMAIN Append(s, x) /\ s[i] = Append(s, x)[i]  BY <1>1, <1>2, <1>a
<1> QED  BY <1>1, <1>a, <1>b, <1>3 DEF Range

-----------------------------------------------------------------------------
(* The control plane only adds placements and specs.                       *)
CpGrows(c, d) ==
    /\ Len(c.placements) <= Len(d.placements)
    /\ \A i \in 1 .. Len(c.placements) : d.placements[i] = c.placements[i]
    /\ \A tg \in TargetGroups : SentPorts(c, tg) \subseteq SentPorts(d, tg)

LEMMA CpNext ==
  ASSUME CpInv, [Next]_vars
  PROVE  CpInv' /\ CpGrows(cp, cp')
<1>0. /\ cp = [placements |-> cp.placements, specs |-> cp.specs, log |-> cp.log, changes |-> cp.changes]
      /\ cp.placements \in Seq(SUBSET TargetGroups) /\ cp.placements # <<>> /\ Len(cp.placements) \in Nat
      /\ cp.specs \in [TargetGroups -> Seq(Ports)]
      /\ \A tg \in TargetGroups : cp.specs[tg] # <<>>
  BY DEF CpInv
<1>1. ASSUME UNCHANGED cp PROVE CpInv' /\ CpGrows(cp, cp')  BY <1>0, <1>1 DEF CpInv, CpGrows
<1>2. ASSUME NEW tg \in TargetGroups, Change(tg) PROVE CpInv' /\ CpGrows(cp, cp')
  <2>1. CASE \E p \in Ports : cp' = [cp EXCEPT !.specs[tg] = Append(@, p), !.changes = @ + 1]
    <3>1. PICK p \in Ports : cp' = [cp EXCEPT !.specs[tg] = Append(@, p), !.changes = @ + 1]  BY <2>1
    <3>2. /\ cp' = [placements |-> cp'.placements, specs |-> cp'.specs, log |-> cp'.log, changes |-> cp'.changes]
          /\ cp'.placements = cp.placements /\ cp'.specs = [cp.specs EXCEPT ![tg] = Append(cp.specs[tg], p)]
      BY <1>0, <3>1
    <3>3. cp.specs[tg] \in Seq(Ports)  BY <1>0
    <3>4. /\ Append(cp.specs[tg], p) \in Seq(Ports) /\ Append(cp.specs[tg], p) # <<>>
          /\ Range(cp.specs[tg]) \subseteq Range(Append(cp.specs[tg], p))
      BY <3>3, AppendRange
    <3>5. /\ cp'.specs \in [TargetGroups -> Seq(Ports)] /\ cp'.specs[tg] = Append(cp.specs[tg], p)
          /\ \A u \in TargetGroups : u # tg => cp'.specs[u] = cp.specs[u]
      BY <1>0, <3>2, <3>4
    <3>6. CpInv'  BY <1>0, <3>2, <3>4, <3>5 DEF CpInv
    <3>7. CpGrows(cp, cp')  BY <1>0, <3>2, <3>4, <3>5 DEF CpGrows, SentPorts
    <3> QED  BY <3>6, <3>7
  <2>2. CASE \E e \in Events : cp' = [cp EXCEPT !.log[tg] = Append(@, e), !.changes = @ + 1]
    <3>1. /\ cp' = [placements |-> cp'.placements, specs |-> cp'.specs, log |-> cp'.log, changes |-> cp'.changes]
          /\ cp'.placements = cp.placements /\ cp'.specs = cp.specs
      BY <1>0, <2>2
    <3> QED  BY <1>0, <3>1 DEF CpInv, CpGrows, SentPorts
  <2> QED  BY <1>2, <2>1, <2>2 DEF Change
<1>3. ASSUME NEW tgs \in SUBSET TargetGroups, ChangePlacement(tgs) PROVE CpInv' /\ CpGrows(cp, cp')
  <2>1. cp' = [cp EXCEPT !.placements = Append(cp.placements, tgs)]  BY <1>3 DEF ChangePlacement
  <2>2. /\ cp' = [placements |-> cp'.placements, specs |-> cp'.specs, log |-> cp'.log, changes |-> cp'.changes]
        /\ cp'.placements = Append(cp.placements, tgs) /\ cp'.specs = cp.specs
    BY <1>0, <2>1
  <2>3. /\ Append(cp.placements, tgs) \in Seq(SUBSET TargetGroups) /\ Append(cp.placements, tgs) # <<>>
        /\ Len(Append(cp.placements, tgs)) = Len(cp.placements) + 1
        /\ \A i \in 1 .. Len(cp.placements) : Append(cp.placements, tgs)[i] = cp.placements[i]
    BY <1>0, AppendRange
  <2> QED  BY <1>0, <2>2, <2>3 DEF CpInv, CpGrows, SentPorts
<1>4. CASE \E tg \in TargetGroups : ForceReconcile(tg) \/ TakeTask(tg)
  BY <1>1, <1>4 DEF ForceReconcile, TakeTask
<1>5. CASE \E tg \in TargetGroups, up \in HealthyEndpoints : StatusesChange(tg, up)
  BY <1>1, <1>5 DEF StatusesChange
<1>6. CASE Scheduling
  BY <1>1, <1>6 DEF Scheduling, Poll, UpdateTargetGroups, AddNewTargetGroups, RemoveTargetGroups,
                    SavePlacementVersion, MakeReconcileEvent
<1>7. CASE Working
  BY <1>1, <1>7 DEF Working, Take, ReconcileSpec, ReadVersions, RemoveEndpoints, AddEndpoints, RemoveTgEndpoints,
                    RemoveSpec, Reboot
<1>8. CASE Crash \/ UNCHANGED vars  BY <1>1, <1>8 DEF Crash, Reboot, vars
<1> QED  BY <1>2, <1>3, <1>4, <1>5, <1>6, <1>7, <1>8 DEF Next

(* What the control plane adds does not disturb what was checked.          *)
LEMMA StoredGrows ==
  ASSUME NEW c, NEW d, CpGrows(c, d), NEW st, StoredOK(c, st), Len(c.placements) \in Nat, Len(d.placements) \in Nat
  PROVE  StoredOK(d, st)
  BY DEF CpGrows, StoredOK

LEMMA SchedGrows ==
  ASSUME NEW c, NEW d, CpGrows(c, d), NEW st, NEW s, SchedOK(c, st, s), st.version \in Nat,
         Len(c.placements) \in Nat, Len(d.placements) \in Nat
  PROVE  SchedOK(d, st, s)
<1> SUFFICES ASSUME s.pc \in Jobs PROVE JobOK(d, st, s)
  BY DEF SchedOK
<1>1. JobOK(c, st, s) /\ JobBase(c, st, s)  BY DEF SchedOK, JobOK
<1>2. \A ch : SpecSent(c, ch) => SpecSent(d, ch)  BY DEF SpecSent, CpGrows
<1>3. s.version \in Nat /\ s.version <= Len(d.placements)  BY <1>1 DEF JobBase, JobChanges, CpGrows
<1>4. st.version < s.version => Outcome(st, s) = d.placements[s.version]
  <2> SUFFICES ASSUME st.version < s.version PROVE Outcome(st, s) = d.placements[s.version]
    OBVIOUS
  <2>1. s.version \in 1 .. Len(c.placements)  BY <1>1 DEF JobBase, JobChanges
  <2> QED  BY <1>1, <2>1 DEF JobBase, JobChanges, CpGrows
<1>5. JobBase(d, st, s)  BY <1>1, <1>2, <1>3, <1>4 DEF JobBase, JobChanges
<1> QED  BY <1>1, <1>5 DEF JobOK

LEMMA Placements ==
  ASSUME CpInv
  PROVE  /\ Len(cp.placements) \in Nat /\ Len(cp.placements) >= 1
         /\ Last(cp.placements) = cp.placements[Len(cp.placements)]
         /\ Last(cp.placements) \subseteq TargetGroups
  BY LastElement DEF CpInv

(* A step that leaves the store and the scheduler alone.                   *)
LEMMA SchedulerKept ==
  ASSUME SchedulerInv, [Next]_vars, UNCHANGED <<stored, sched>>, HealthInv'
  PROVE  SchedulerInv'
<1>1. CpInv /\ CpInv' /\ CpGrows(cp, cp')  BY CpNext DEF SchedulerInv
<1>2. /\ Len(cp.placements) \in Nat /\ Last(cp.placements) = cp.placements[Len(cp.placements)]
      /\ Len(cp.placements) >= 1
      /\ Len(cp'.placements) \in Nat /\ Last(cp'.placements) = cp'.placements[Len(cp'.placements)]
  BY <1>1, Placements, LastElement DEF CpInv
<1>3. StoredOK(cp, stored) /\ SchedOK(cp, stored, sched) /\ stored.version \in Nat /\ stored.version <= Len(cp.placements)
  BY DEF SchedulerInv, StoredOK
<1>4. StoredOK(cp', stored) /\ SchedOK(cp', stored, sched)
  BY <1>1, <1>2, <1>3, StoredGrows, SchedGrows
<1>5. PlacementStored'
  <2> SUFFICES ASSUME stored.version = Len(cp'.placements) PROVE DOMAIN stored.spec = Last(cp'.placements)
    BY DEF PlacementStored
  <2>1. Len(cp.placements) = Len(cp'.placements)  BY <1>1, <1>2, <1>3 DEF CpGrows
  <2>2. Last(cp'.placements) = Last(cp.placements)  BY <1>1, <1>2, <2>1 DEF CpGrows
  <2> QED  BY <2>1, <2>2 DEF SchedulerInv, PlacementStored
<1>6. StoredOK(cp, stored)' /\ SchedOK(cp, stored, sched)'  BY <1>4
<1> QED  BY <1>1, <1>5, <1>6 DEF SchedulerInv

-----------------------------------------------------------------------------
(* The writes of the scheduler.                                            *)
LEMMA SpecWritten ==
  ASSUME StoredOK(cp, stored), NEW ch, SpecSent(cp, ch), ch.spec # <<>>
  PROVE  /\ StoredOK(cp, SetDesiredSpec(ch))
         /\ DOMAIN SetDesiredSpec(ch).spec = DOMAIN stored.spec \cup {ch.tg}
         /\ SetDesiredSpec(ch).version = stored.version
<1> DEFINE n == SetDesiredSpec(ch)
           v == [ver |-> ch.specVer, port |-> ch.spec[1]]
<1> SUFFICES StoredOK(cp, n) /\ DOMAIN n.spec = DOMAIN stored.spec \cup {ch.tg} /\ n.version = stored.version
  OBVIOUS
<1>1. CASE n = stored /\ Has(stored.spec, ch.tg)  BY <1>1 DEF Has
<1>2. CASE n = [stored EXCEPT !.spec = Put(stored.spec, ch.tg, v)]
  <2>1. n = [version |-> stored.version, spec |-> Put(stored.spec, ch.tg, v), eps |-> stored.eps]
    BY <1>2 DEF StoredOK
  <2>2. n.version = stored.version /\ n.spec = Put(stored.spec, ch.tg, v) /\ n.eps = stored.eps
        /\ n = [version |-> n.version, spec |-> n.spec, eps |-> n.eps]
    BY <2>1
  <2> HIDE DEF n
  <2>3. /\ DOMAIN n.spec = DOMAIN stored.spec \cup {ch.tg} /\ n.spec[ch.tg] = v
        /\ \A x \in DOMAIN stored.spec : x # ch.tg => n.spec[x] = stored.spec[x]
    BY <2>2 DEF Put
  <2>4. \A x \in DOMAIN n.spec : n.spec[x].port \in SentPorts(cp, x)
    BY <2>3 DEF StoredOK, SpecSent
  <2> QED  BY <2>2, <2>3, <2>4 DEF StoredOK, SpecSent
<1> QED  BY <1>1, <1>2 DEF SetDesiredSpec

LEMMA EndpointsWritten ==
  ASSUME StoredOK(cp, stored), NEW ch, ch.tg \in DOMAIN stored.spec, NEW eps
  PROVE  /\ StoredOK(cp, SetDesiredEndpoints(ch, eps))
         /\ SetDesiredEndpoints(ch, eps).spec = stored.spec
         /\ SetDesiredEndpoints(ch, eps).version = stored.version
<1> DEFINE n == SetDesiredEndpoints(ch, eps)
           v == [ver |-> ch.ver, eps |-> eps]
<1> SUFFICES StoredOK(cp, n) /\ n.spec = stored.spec /\ n.version = stored.version
  OBVIOUS
<1>1. CASE n = stored  BY <1>1
<1>2. CASE n = [stored EXCEPT !.eps = Put(stored.eps, ch.tg, v)]
  <2>1. n = [version |-> stored.version, spec |-> stored.spec, eps |-> Put(stored.eps, ch.tg, v)]
    BY <1>2 DEF StoredOK
  <2>2. n.version = stored.version /\ n.spec = stored.spec /\ n.eps = Put(stored.eps, ch.tg, v)
        /\ n = [version |-> n.version, spec |-> n.spec, eps |-> n.eps]
    BY <2>1
  <2> HIDE DEF n, v
  <2>3. DOMAIN n.eps = DOMAIN stored.eps \cup {ch.tg}
    BY <2>2 DEF Put
  <2> QED  BY <2>2, <2>3 DEF StoredOK
<1> QED  BY <1>1, <1>2 DEF SetDesiredEndpoints

(* The next stage of a job whose current change is done.                   *)
LEMMA StageJob ==
  ASSUME NEW c, NEW st, NEW s, JobBase(c, st, s), s.cur = <<>>, s.send \subseteq TargetGroups
  PROVE  SchedOK(c, st, Stage(s))
<1> DEFINE p == IF s.update # {} THEN "update" ELSE IF s.add # {} THEN "add"
                ELSE IF s.remove # {} THEN "remove" ELSE "save"
           n == Stage(s)
<1>0. JobShape(s)  BY DEF JobBase, JobChanges
<1>1. n = [pc |-> p, cur |-> s.cur, update |-> s.update, add |-> s.add, remove |-> s.remove,
           version |-> s.version, send |-> s.send]
  BY <1>0 DEF Stage, JobShape
<1>2. /\ n.pc = p /\ n.cur = <<>> /\ n.update = s.update /\ n.add = s.add /\ n.remove = s.remove
      /\ n.version = s.version /\ n.send = s.send /\ JobShape(n)
  BY <1>1 DEF JobShape
<1>3. /\ p \in Jobs /\ (p # "update" => s.update = {}) /\ (p \notin {"update", "add"} => s.add = {})
      /\ (p = "save" => s.remove = {})
  BY DEF Jobs
<1> HIDE DEF n, p
<1>4. JobBase(c, st, n)  BY <1>2 DEF JobBase, JobChanges, Outcome
<1>5. JobOK(c, st, n)  BY <1>2, <1>3, <1>4 DEF JobOK
<1> QED  BY <1>2, <1>3, <1>5 DEF SchedOK, n

(* What a job needs of the store: its version and its target groups.       *)
LEMMA JobStays ==
  ASSUME NEW c, NEW st, NEW s, JobBase(c, st, s), NEW n, n.version = st.version, DOMAIN n.spec = DOMAIN st.spec
  PROVE  JobBase(c, n, s)
  BY DEF JobBase, JobChanges, Outcome

-----------------------------------------------------------------------------
(* An answer of the control plane leads to its latest placement.           *)
ChangeShape(ch) == ch = [tg |-> ch.tg, spec |-> ch.spec, specVer |-> ch.specVer, log |-> ch.log, ver |-> ch.ver]

LEMMA ChangeSent ==
  ASSUME CpInv, NEW tg \in TargetGroups, NEW from, NEW specVer
  PROVE  /\ TargetGroupChange(tg, from, specVer).tg = tg
         /\ ChangeShape(TargetGroupChange(tg, from, specVer))
         /\ SpecSent(cp, TargetGroupChange(tg, from, specVer))
<1> DEFINE ch == TargetGroupChange(tg, from, specVer)
<1>1. /\ ch.tg = tg /\ ChangeShape(ch)
      /\ ch.spec = IF Len(cp.specs[tg]) > specVer THEN <<Last(cp.specs[tg])>> ELSE <<>>
  BY DEF TargetGroupChange, ChangeShape
<1>2. Last(cp.specs[tg]) \in Range(cp.specs[tg])  BY LastElement DEF CpInv
<1> HIDE DEF ch
<1>3. SpecSent(cp, ch)  BY <1>1, <1>2 DEF SpecSent, SentPorts
<1> QED  BY <1>1, <1>3 DEF ch

LEMMA ReplyLeads ==
  ASSUME CpInv, StoredOK(cp, stored)
  PROVE  /\ Reply = [version |-> Reply.version, update |-> Reply.update, add |-> Reply.add, remove |-> Reply.remove]
         /\ \A ch \in Reply.add : ChangeShape(ch)
         /\ JobChanges(cp, stored, Reply)
<1> DEFINE tgs == Last(cp.placements)
           held == DOMAIN stored.spec
           changed == stored.version < Len(cp.placements)
           changes == {TargetGroupChange(tg, 0, 0) : tg \in tgs \ held}
           updates == {TargetGroupChange(tg, StoredVersion(tg), stored.spec[tg].ver) : tg \in held \cap tgs}
<1>1. /\ Reply = [version |-> Reply.version, update |-> Reply.update, add |-> Reply.add, remove |-> Reply.remove]
      /\ Reply.version = Len(cp.placements) /\ Reply.update = {c \in updates : c.spec # <<>> \/ c.log # <<>>}
      /\ Reply.add = (IF changed THEN changes ELSE {}) /\ Reply.remove = (IF changed THEN held \ tgs ELSE {})
  BY DEF Reply
<1>2. /\ Len(cp.placements) \in Nat /\ tgs = cp.placements[Len(cp.placements)] /\ tgs \subseteq TargetGroups
      /\ held \subseteq TargetGroups /\ stored.version \in Nat /\ stored.version <= Len(cp.placements)
  BY Placements DEF StoredOK
<1> HIDE DEF tgs, held
<1>3. \A tg \in tgs \ held : /\ TargetGroupChange(tg, 0, 0).tg = tg /\ ChangeShape(TargetGroupChange(tg, 0, 0))
                             /\ SpecSent(cp, TargetGroupChange(tg, 0, 0))
  BY <1>2, ChangeSent
<1>4. \A ch \in changes : ChangeShape(ch) /\ SpecSent(cp, ch) /\ ch.tg \in tgs \ held  BY <1>3
<1>5. {ch.tg : ch \in changes} = tgs \ held
  <2>1. \A tg \in tgs \ held : \E ch \in changes : ch.tg = tg  BY <1>3
  <2> HIDE DEF changes
  <2> QED  BY <1>4, <2>1
<1>6. \A ch \in updates : ch.tg \in held /\ SpecSent(cp, ch)
  <2> SUFFICES ASSUME NEW tg \in held \cap tgs, NEW ch, ch = TargetGroupChange(tg, StoredVersion(tg), stored.spec[tg].ver)
               PROVE  ch.tg \in held /\ SpecSent(cp, ch)
    OBVIOUS
  <2> QED  BY <1>2, ChangeSent
<1> HIDE DEF changes, updates
<1>7. \A ch \in Reply.update : ch.tg \in DOMAIN stored.spec /\ SpecSent(cp, ch)  BY <1>1, <1>6 DEF held
<1>8. \A ch \in Reply.add : ChangeShape(ch) /\ SpecSent(cp, ch)  BY <1>1, <1>4
<1>9. Reply.remove \subseteq TargetGroups  BY <1>1, <1>2
<1>10. /\ Reply.version \in Nat /\ stored.version <= Reply.version /\ Reply.version <= Len(cp.placements)
       /\ stored.version = Reply.version => Reply.add = {} /\ Reply.remove = {}
  BY <1>1, <1>2
<1>11. stored.version < Reply.version => Outcome(stored, Reply) = cp.placements[Reply.version]
  <2> SUFFICES ASSUME stored.version < Reply.version PROVE Outcome(stored, Reply) = tgs
    BY <1>1, <1>2
  <2>1. Reply.add = changes /\ Reply.remove = held \ tgs  BY <1>1
  <2>2. Outcome(stored, Reply) = (held \cup (tgs \ held)) \ (held \ tgs)  BY <1>5, <2>1 DEF Outcome, held
  <2> QED  BY <2>2
<1> HIDE DEF changed
<1>12. JobChanges(cp, stored, Reply)  BY <1>7, <1>8, <1>9, <1>10, <1>11 DEF JobChanges
<1> QED  BY <1>1, <1>8, <1>12

(* An answer that lacks the spec of a target group leads there as well.    *)
LEMMA SpecLost ==
  ASSUME NEW c, NEW st, NEW r, NEW n, JobChanges(c, st, r), NEW ch \in r.add, ChangeShape(ch),
         n.version = r.version, n.update = r.update, n.remove = r.remove,
         n.add = (r.add \ {ch}) \cup {[ch EXCEPT !.spec = <<>>]}
  PROVE  JobChanges(c, st, n)
<1> DEFINE lost == [ch EXCEPT !.spec = <<>>]
<1>1. lost = [tg |-> ch.tg, spec |-> <<>>, specVer |-> ch.specVer, log |-> ch.log, ver |-> ch.ver]
  BY DEF ChangeShape
<1>2. lost.tg = ch.tg /\ lost.spec = <<>>  BY <1>1
<1>3. SpecSent(c, ch)  BY DEF JobChanges
<1> HIDE DEF lost
<1>4. SpecSent(c, lost)  BY <1>2, <1>3 DEF SpecSent
<1>5. n.add = (r.add \ {ch}) \cup {lost}  BY DEF lost
<1>6. \A x \in n.add : SpecSent(c, x)  BY <1>4, <1>5 DEF JobChanges
<1>7. {x.tg : x \in n.add} = {x.tg : x \in r.add}
  <2>1. \A x \in n.add : \E y \in r.add : y.tg = x.tg  BY <1>2, <1>5
  <2>2. \A y \in r.add : \E x \in n.add : y.tg = x.tg  BY <1>2, <1>5
  <2> QED  BY <2>1, <2>2
<1>8. Outcome(st, n) = Outcome(st, r)  BY <1>7 DEF Outcome
<1>9. r.add # {}  OBVIOUS
<1> QED  BY <1>6, <1>8, <1>9 DEF JobChanges

LEMMA Started ==
  ASSUME CpInv, StoredOK(cp, stored), NEW r, JobChanges(cp, stored, r), StartUpdate(r)
  PROVE  SchedOK(cp, stored, sched')
<1> DEFINE s == [pc |-> "start", cur |-> <<>>, update |-> r.update, add |-> r.add,
                 remove |-> r.remove, version |-> r.version, send |-> Send(r)]
<1>1. /\ s.cur = <<>> /\ s.update = r.update /\ s.add = r.add /\ s.remove = r.remove
      /\ s.version = r.version /\ s.send = Send(r) /\ JobShape(s)
  BY DEF JobShape
<1>2. sched' = Stage(s)  BY DEF StartUpdate
<1> HIDE DEF s
<1>3. JobBase(cp, stored, s)  BY <1>1 DEF JobBase, JobChanges, Outcome
<1>4. Send(r) \subseteq TargetGroups
  <2>1. /\ \A ch \in r.update : ch.tg \in TargetGroups
        /\ \A ch \in r.add : ch.tg \in TargetGroups
        /\ r.remove \subseteq TargetGroups
    BY DEF JobChanges, SpecSent
  <2> QED  BY <2>1 DEF Send
<1> QED  BY <1>1, <1>2, <1>3, <1>4, StageJob

-----------------------------------------------------------------------------
(* The steps of the scheduler.                                             *)
LEMMA SchedulerMoves ==
  ASSUME SchedulerInv, UNCHANGED cp, HealthInv', StoredOK(cp, stored'), SchedOK(cp, stored', sched'), PlacementStored'
  PROVE  SchedulerInv'
<1>1. CpInv'  BY DEF SchedulerInv, CpInv
<1>2. StoredOK(cp', stored') /\ SchedOK(cp', stored', sched')  OBVIOUS
<1>3. StoredOK(cp, stored)' /\ SchedOK(cp, stored, sched)'  BY <1>2
<1> QED  BY <1>1, <1>3 DEF SchedulerInv

LEMMA VersionKept ==
  ASSUME PlacementStored, UNCHANGED cp, stored'.version = stored.version, DOMAIN stored'.spec = DOMAIN stored.spec
  PROVE  PlacementStored'
  BY DEF PlacementStored

LEMMA HealthKept ==
  ASSUME HealthInv, UNCHANGED health
  PROVE  HealthInv'
  BY DEF HealthInv

LEMMA IdleOK ==
  ASSUME NEW c, NEW st
  PROVE  SchedOK(c, st, IdleSched)
  BY DEF SchedOK, IdleSched, Jobs

LEMMA PollStep ==
  ASSUME SchedulerInv, Poll
  PROVE  SchedulerInv'
<1>1. CpInv /\ StoredOK(cp, stored) /\ PlacementStored /\ HealthInv  BY DEF SchedulerInv
<1>2. UNCHANGED <<cp, stored, health>>  BY DEF Poll
<1>3. /\ Reply = [version |-> Reply.version, update |-> Reply.update, add |-> Reply.add, remove |-> Reply.remove]
      /\ \A ch \in Reply.add : ChangeShape(ch)
      /\ JobChanges(cp, stored, Reply)
  BY <1>1, ReplyLeads
<1>4. SchedOK(cp, stored, sched')
  <2>1. CASE StartUpdate(Reply)  BY <1>1, <1>3, <2>1, Started
  <2>2. ASSUME NEW c \in Reply.add, StartUpdate([Reply EXCEPT !.add = (@ \ {c}) \cup {[c EXCEPT !.spec = <<>>]}])
        PROVE  SchedOK(cp, stored, sched')
    <3> DEFINE lost == [c EXCEPT !.spec = <<>>]
               r == Reply
               n == [r EXCEPT !.add = (r.add \ {c}) \cup {lost}]
    <3>1. StartUpdate(n)  BY <2>2
    <3>2. r = [version |-> r.version, update |-> r.update, add |-> r.add, remove |-> r.remove] /\ JobChanges(cp, stored, r)
          /\ ChangeShape(c) /\ c \in r.add
      BY <1>3, <2>2
    <3> HIDE DEF r, lost
    <3>3. n = [version |-> r.version, update |-> r.update, add |-> (r.add \ {c}) \cup {lost}, remove |-> r.remove]
      BY <3>2
    <3>4. n.version = r.version /\ n.update = r.update /\ n.remove = r.remove /\ n.add = (r.add \ {c}) \cup {lost}
      BY <3>3
    <3> HIDE DEF n
    <3>5. JobChanges(cp, stored, n)  BY <3>2, <3>4, SpecLost DEF lost
    <3> QED  BY <1>1, <3>1, <3>5, Started
  <2> QED  BY <2>1, <2>2 DEF Poll
<1>5. PlacementStored' /\ HealthInv'  BY <1>1, <1>2, VersionKept, HealthKept
<1>6. StoredOK(cp, stored') /\ SchedOK(cp, stored', sched')  BY <1>1, <1>2, <1>4
<1> QED  BY <1>2, <1>5, <1>6, SchedulerMoves

(* A write that may fail.                                                  *)
LEMMA Written ==
  ASSUME StoredOK(cp, stored), NEW n, StoredOK(cp, n), n.version = stored.version, DOMAIN n.spec = DOMAIN stored.spec,
         WriteOrFail(n)
  PROVE  StoredOK(cp, stored') /\ stored'.version = stored.version /\ DOMAIN stored'.spec = DOMAIN stored.spec
  BY DEF WriteOrFail

(* The endpoints of the current change are written, and the job goes on.   *)
LEMMA CurrentDone ==
  ASSUME SchedulerInv, sched.pc \in Jobs, NEW n, WriteOrFail(n), StoredOK(cp, n), n.version = stored.version,
         n.spec = stored.spec, sched' = Stage([sched EXCEPT !.cur = <<>>]), UNCHANGED <<cp, health>>
  PROVE  SchedulerInv'
<1>1. CpInv /\ StoredOK(cp, stored) /\ PlacementStored /\ HealthInv  BY DEF SchedulerInv
<1>2. StoredOK(cp, stored') /\ stored'.version = stored.version /\ DOMAIN stored'.spec = DOMAIN stored.spec
  BY <1>1, Written
<1>3. JobBase(cp, stored, sched) /\ sched.send \subseteq TargetGroups
  BY DEF SchedulerInv, SchedOK, JobOK, Jobs
<1> DEFINE s == [sched EXCEPT !.cur = <<>>]
<1>4. s = [pc |-> sched.pc, cur |-> <<>>, update |-> sched.update, add |-> sched.add, remove |-> sched.remove,
           version |-> sched.version, send |-> sched.send]
  BY <1>3 DEF JobBase, JobShape
<1>5. /\ s.cur = <<>> /\ s.update = sched.update /\ s.add = sched.add /\ s.remove = sched.remove
      /\ s.version = sched.version /\ s.send = sched.send /\ JobShape(s)
  BY <1>4 DEF JobShape
<1> HIDE DEF s
<1>6. JobBase(cp, stored, s)  BY <1>3, <1>5 DEF JobBase, JobChanges, Outcome
<1>7. JobBase(cp, stored', s)  BY <1>2, <1>6, JobStays
<1>8. SchedOK(cp, stored', sched')  BY <1>3, <1>5, <1>7, StageJob DEF s
<1>9. PlacementStored' /\ HealthInv'  BY <1>1, <1>2, VersionKept, HealthKept
<1> QED  BY <1>2, <1>8, <1>9, SchedulerMoves

LEMMA UpdateStep ==
  ASSUME SchedulerInv, UpdateTargetGroups
  PROVE  SchedulerInv'
<1>1. CpInv /\ StoredOK(cp, stored) /\ PlacementStored /\ HealthInv  BY DEF SchedulerInv
<1>2. UNCHANGED <<cp, health>> /\ sched.pc = "update"  BY DEF UpdateTargetGroups
<1>3. JobOK(cp, stored, sched) /\ sched.send \subseteq TargetGroups /\ sched.pc \in Jobs
  BY <1>2 DEF SchedulerInv, SchedOK, Jobs
<1>4. CASE sched.cur # <<>>
  <2> DEFINE c == sched.cur[1]
             n == IF c.log # <<>> THEN SetDesiredEndpoints(c, UpdatedEndpoints(c)) ELSE stored
  <2>1. c.tg \in DOMAIN stored.spec  BY <1>3, <1>4 DEF JobOK
  <2>2. WriteOrFail(n) /\ sched' = Stage([sched EXCEPT !.cur = <<>>])  BY <1>4 DEF UpdateTargetGroups
  <2> HIDE DEF c
  <2>3. StoredOK(cp, n) /\ n.version = stored.version /\ n.spec = stored.spec  BY <1>1, <2>1, EndpointsWritten
  <2> HIDE DEF n
  <2> QED  BY <1>2, <1>3, <2>2, <2>3, CurrentDone
<1>5. CASE sched.cur = <<>>
  <2>1. PICK c \in sched.update : /\ WriteOrFail(IF c.spec # <<>> THEN SetDesiredSpec(c) ELSE stored)
                                  /\ sched' = [sched EXCEPT !.cur = <<c>>, !.update = @ \ {c}]
    BY <1>5 DEF UpdateTargetGroups
  <2> DEFINE n == IF c.spec # <<>> THEN SetDesiredSpec(c) ELSE stored
  <2>2. c.tg \in DOMAIN stored.spec /\ SpecSent(cp, c)  BY <1>3 DEF JobOK, JobBase, JobChanges
  <2>3. StoredOK(cp, n) /\ n.version = stored.version /\ DOMAIN n.spec = DOMAIN stored.spec
    <3>1. CASE c.spec = <<>>  BY <1>1, <3>1
    <3>2. CASE c.spec # <<>>  BY <1>1, <2>2, <3>2, SpecWritten
    <3> QED  BY <3>1, <3>2
  <2>4. WriteOrFail(n)  BY <2>1
  <2> HIDE DEF n
  <2>5. StoredOK(cp, stored') /\ stored'.version = stored.version /\ DOMAIN stored'.spec = DOMAIN stored.spec
    BY <1>1, <2>3, <2>4, Written
  <2>6. sched' = [pc |-> "update", cur |-> <<c>>, update |-> sched.update \ {c}, add |-> sched.add,
                  remove |-> sched.remove, version |-> sched.version, send |-> sched.send]
    BY <1>2, <1>3, <2>1 DEF JobOK, JobBase, JobShape
  <2>7. /\ sched'.pc = "update" /\ sched'.cur = <<c>> /\ sched'.update = sched.update \ {c} /\ sched'.add = sched.add
        /\ sched'.remove = sched.remove /\ sched'.version = sched.version /\ sched'.send = sched.send /\ JobShape(sched')
    BY <2>6 DEF JobShape
  <2>8. JobBase(cp, stored, sched')  BY <1>3, <2>7 DEF JobOK, JobBase, JobChanges, Outcome
  <2>9. JobBase(cp, stored', sched')  BY <2>5, <2>8, JobStays
  <2>10. sched'.cur[1].tg \in DOMAIN stored'.spec  BY <2>2, <2>5, <2>7
  <2>11. JobOK(cp, stored', sched')  BY <2>7, <2>9, <2>10 DEF JobOK
  <2>12. SchedOK(cp, stored', sched')  BY <1>3, <2>7, <2>11 DEF SchedOK, Jobs
  <2>13. PlacementStored' /\ HealthInv'  BY <1>1, <1>2, <2>5, VersionKept, HealthKept
  <2> QED  BY <1>2, <2>5, <2>12, <2>13, SchedulerMoves
<1> QED  BY <1>4, <1>5

LEMMA AddStep ==
  ASSUME SchedulerInv, AddNewTargetGroups
  PROVE  SchedulerInv'
<1>1. CpInv /\ StoredOK(cp, stored) /\ PlacementStored /\ HealthInv  BY DEF SchedulerInv
<1>2. UNCHANGED cp /\ sched.pc = "add"  BY DEF AddNewTargetGroups
<1>3. JobOK(cp, stored, sched) /\ sched.send \subseteq TargetGroups /\ sched.pc \in Jobs
  BY <1>2 DEF SchedulerInv, SchedOK, Jobs
<1>4. CASE sched.cur # <<>>
  <2> DEFINE c == sched.cur[1]
             n == SetDesiredEndpoints(c, EndpointsOfChangelog(c))
  <2>1. c.tg \in DOMAIN stored.spec  BY <1>3, <1>4 DEF JobOK
  <2>2. WriteOrFail(n) /\ sched' = Stage([sched EXCEPT !.cur = <<>>]) /\ UNCHANGED health
    BY <1>4 DEF AddNewTargetGroups
  <2> HIDE DEF c
  <2>3. StoredOK(cp, n) /\ n.version = stored.version /\ n.spec = stored.spec  BY <1>1, <2>1, EndpointsWritten
  <2> HIDE DEF n
  <2> QED  BY <1>2, <1>3, <2>2, <2>3, CurrentDone
<1>5. ASSUME NEW c \in sched.add, c.spec # <<>>, stored' = SetDesiredSpec(c),
             health' = [health EXCEPT !.watched = @ \cup {c.tg}],
             sched' = [sched EXCEPT !.cur = <<c>>, !.add = @ \ {c}]
      PROVE  SchedulerInv'
  <2>1. SpecSent(cp, c) /\ c.tg \in TargetGroups  BY <1>3 DEF JobOK, JobBase, JobChanges, SpecSent
  <2>2. StoredOK(cp, stored') /\ DOMAIN stored'.spec = DOMAIN stored.spec \cup {c.tg} /\ stored'.version = stored.version
    BY <1>1, <1>5, <2>1, SpecWritten
  <2>3. sched' = [pc |-> "add", cur |-> <<c>>, update |-> sched.update, add |-> sched.add \ {c},
                  remove |-> sched.remove, version |-> sched.version, send |-> sched.send]
    BY <1>2, <1>3, <1>5 DEF JobOK, JobBase, JobShape
  <2>4. /\ sched'.pc = "add" /\ sched'.cur = <<c>> /\ sched'.update = sched.update /\ sched'.add = sched.add \ {c}
        /\ sched'.remove = sched.remove /\ sched'.version = sched.version /\ sched'.send = sched.send /\ JobShape(sched')
    BY <2>3 DEF JobShape
  <2>5. sched.update = {}  BY <1>2, <1>3 DEF JobOK
  <2>6. /\ sched.version \in Nat /\ stored.version \in Nat /\ stored.version < sched.version
        /\ sched.version <= Len(cp.placements) /\ Len(cp.placements) \in Nat
    <3>1. sched.add # {}  OBVIOUS
    <3> QED  BY <1>1, <1>3, <3>1, Placements DEF JobOK, JobBase, JobChanges, StoredOK
  <2>7. Outcome(stored', sched') = Outcome(stored, sched)
    <3>1. {ch.tg : ch \in sched.add} = {ch.tg : ch \in sched.add \ {c}} \cup {c.tg}  OBVIOUS
    <3> QED  BY <2>2, <2>4, <3>1 DEF Outcome
  <2>8. JobChanges(cp, stored', sched')
    <3>1. JobChanges(cp, stored, sched)  BY <1>3 DEF JobOK, JobBase
    <3> QED  BY <2>2, <2>4, <2>5, <2>6, <2>7, <3>1 DEF JobChanges
  <2>9. JobOK(cp, stored', sched')  BY <2>2, <2>4, <2>5, <2>8 DEF JobOK, JobBase
  <2>10. SchedOK(cp, stored', sched')  BY <1>3, <2>4, <2>9 DEF SchedOK, Jobs
  <2>11. PlacementStored'
    <3>1. stored'.version # Len(cp'.placements)  BY <1>2, <2>2, <2>6
    <3> QED  BY <3>1 DEF PlacementStored
  <2>12. HealthInv'
    <3>1. health' = [watched |-> health.watched \cup {c.tg}, of |-> health.of, changes |-> health.changes]
      BY <1>1, <1>5 DEF HealthInv
    <3>2. health'.watched = health.watched \cup {c.tg} /\ health'.of = health.of
          /\ health' = [watched |-> health'.watched, of |-> health'.of, changes |-> health'.changes]
      BY <3>1
    <3> QED  BY <1>1, <2>1, <3>2 DEF HealthInv
  <2> QED  BY <1>2, <2>2, <2>10, <2>11, <2>12, SchedulerMoves
<1>6. ASSUME NEW c \in sched.add, AbandonAdd(c), UNCHANGED <<stored, health>>
      PROVE  SchedulerInv'
  <2>1. PlacementStored' /\ HealthInv'  BY <1>1, <1>2, <1>6, VersionKept, HealthKept
  <2>2. StoredOK(cp, stored') /\ SchedOK(cp, stored', sched')  BY <1>1, <1>6, IdleOK DEF AbandonAdd
  <2> QED  BY <1>2, <2>1, <2>2, SchedulerMoves
<1> QED  BY <1>4, <1>5, <1>6 DEF AddNewTargetGroups

LEMMA RemoveStep ==
  ASSUME SchedulerInv, RemoveTargetGroups
  PROVE  SchedulerInv'
<1>1. CpInv /\ StoredOK(cp, stored) /\ PlacementStored /\ HealthInv  BY DEF SchedulerInv
<1>2. UNCHANGED cp /\ sched.pc = "remove"  BY DEF RemoveTargetGroups
<1>3. JobOK(cp, stored, sched) /\ sched.send \subseteq TargetGroups /\ sched.pc \in Jobs
  BY <1>2 DEF SchedulerInv, SchedOK, Jobs
<1>4. HealthInv'
  <2>1. health' = [watched |-> health.watched \ sched.remove, of |-> Without(health.of, sched.remove), changes |-> health.changes]
    BY <1>1 DEF HealthInv, RemoveTargetGroups
  <2>2. health'.watched = health.watched \ sched.remove /\ health'.of = Without(health.of, sched.remove)
        /\ health' = [watched |-> health'.watched, of |-> health'.of, changes |-> health'.changes]
    BY <2>1
  <2>3. DOMAIN health'.of = DOMAIN health.of \ sched.remove  BY <2>2 DEF Without, Restrict
  <2> QED  BY <1>1, <2>2, <2>3 DEF HealthInv
<1>5. CASE stored' = DeletedDesired(sched.remove) /\ sched' = [sched EXCEPT !.pc = "save"]
  <2> DEFINE ids == sched.remove
  <2>1. stored' = [version |-> stored.version, spec |-> Without(stored.spec, ids), eps |-> Without(stored.eps, ids)]
    BY <1>1, <1>5 DEF DeletedDesired, StoredOK
  <2>2. stored'.version = stored.version /\ stored'.spec = Without(stored.spec, ids) /\ stored'.eps = Without(stored.eps, ids)
        /\ stored' = [version |-> stored'.version, spec |-> stored'.spec, eps |-> stored'.eps]
    BY <2>1
  <2>3. /\ DOMAIN stored'.spec = DOMAIN stored.spec \ ids /\ DOMAIN stored'.eps = DOMAIN stored.eps \ ids
        /\ \A x \in DOMAIN stored.spec \ ids : stored'.spec[x] = stored.spec[x]
    BY <2>2 DEF Without, Restrict
  <2>4. StoredOK(cp, stored')  BY <1>1, <2>2, <2>3 DEF StoredOK
  <2>5. sched' = [pc |-> "save", cur |-> sched.cur, update |-> sched.update, add |-> sched.add,
                  remove |-> sched.remove, version |-> sched.version, send |-> sched.send]
    BY <1>3, <1>5 DEF JobOK, JobBase, JobShape
  <2>6. /\ sched'.pc = "save" /\ sched'.cur = sched.cur /\ sched'.update = sched.update /\ sched'.add = sched.add
        /\ sched'.remove = ids /\ sched'.version = sched.version /\ sched'.send = sched.send /\ JobShape(sched')
    BY <2>5 DEF JobShape
  <2>7. sched.update = {} /\ sched.add = {} /\ sched.cur = <<>>  BY <1>2, <1>3 DEF JobOK
  <2>8. Outcome(stored', sched') = Outcome(stored, sched)  BY <2>3, <2>6, <2>7 DEF Outcome
  <2>9. JobChanges(cp, stored', sched')
    <3>1. JobChanges(cp, stored, sched)  BY <1>3 DEF JobOK, JobBase
    <3> QED  BY <2>2, <2>6, <2>7, <2>8, <3>1 DEF JobChanges
  <2>10. JobOK(cp, stored', sched')  BY <2>3, <2>6, <2>7, <2>9 DEF JobOK, JobBase
  <2>11. SchedOK(cp, stored', sched')  BY <1>3, <2>6, <2>10 DEF SchedOK, Jobs
  <2>12. PlacementStored'
    <3>1. CASE stored.version < sched.version
      <4>1. stored'.version # Len(cp'.placements)
        BY <1>1, <1>2, <1>3, <2>2, <3>1, Placements DEF JobOK, JobBase, JobChanges, StoredOK
      <4> QED  BY <4>1 DEF PlacementStored
    <3>2. CASE stored.version = sched.version
      <4>1. ids = {}  BY <1>3, <3>2 DEF JobOK, JobBase, JobChanges
      <4> QED  BY <1>1, <1>2, <2>2, <2>3, <4>1, VersionKept
    <3> QED  BY <1>1, <1>3, <3>1, <3>2 DEF JobOK, JobBase, JobChanges, StoredOK
  <2> QED  BY <1>2, <1>4, <2>4, <2>11, <2>12, SchedulerMoves
<1>6. CASE sched' = IdleSched /\ UNCHANGED stored
  <2>1. PlacementStored'  BY <1>1, <1>2, <1>6, VersionKept
  <2>2. StoredOK(cp, stored') /\ SchedOK(cp, stored', sched')  BY <1>1, <1>6, IdleOK
  <2> QED  BY <1>2, <1>4, <2>1, <2>2, SchedulerMoves
<1> QED  BY <1>5, <1>6 DEF RemoveTargetGroups

LEMMA SaveStep ==
  ASSUME SchedulerInv, SavePlacementVersion
  PROVE  SchedulerInv'
<1>1. CpInv /\ StoredOK(cp, stored) /\ PlacementStored /\ HealthInv  BY DEF SchedulerInv
<1>2. UNCHANGED <<cp, health>> /\ sched.pc = "save"  BY DEF SavePlacementVersion
<1>3. JobOK(cp, stored, sched) /\ sched.send \subseteq TargetGroups /\ sched.pc \in Jobs
  BY <1>2 DEF SchedulerInv, SchedOK, Jobs
<1>4. HealthInv'  BY <1>1, <1>2, HealthKept
<1>5. CASE sched' = IdleSched /\ UNCHANGED stored
  <2>1. PlacementStored'  BY <1>1, <1>2, <1>5, VersionKept
  <2>2. StoredOK(cp, stored') /\ SchedOK(cp, stored', sched')  BY <1>1, <1>5, IdleOK
  <2> QED  BY <1>2, <1>4, <2>1, <2>2, SchedulerMoves
<1>6. CASE sched' = [pc |-> "send", send |-> sched.send]
           /\ stored' = IF sched.version <= stored.version THEN stored ELSE [stored EXCEPT !.version = sched.version]
  <2>1. /\ sched.version \in Nat /\ stored.version \in Nat /\ stored.version <= sched.version
        /\ sched.version <= Len(cp.placements) /\ Len(cp.placements) \in Nat
        /\ Last(cp.placements) = cp.placements[Len(cp.placements)]
    BY <1>1, <1>3, Placements DEF JobOK, JobBase, JobChanges, StoredOK
  <2>2. SchedOK(cp, stored', sched')
    <3>1. sched'.pc = "send" /\ sched'.send = sched.send  BY <1>6
    <3> QED  BY <1>3, <3>1 DEF SchedOK, Jobs
  <2>3. CASE stored.version = sched.version
    <3>1. stored' = stored  BY <1>6, <2>1, <2>3
    <3>2. PlacementStored' /\ StoredOK(cp, stored')  BY <1>1, <1>2, <3>1, VersionKept
    <3> QED  BY <1>2, <1>4, <2>2, <3>2, SchedulerMoves
  <2>4. CASE stored.version < sched.version
    <3>1. stored' = [stored EXCEPT !.version = sched.version]  BY <1>6, <2>1, <2>4
    <3>2. stored' = [version |-> sched.version, spec |-> stored.spec, eps |-> stored.eps]
      BY <1>1, <3>1 DEF StoredOK
    <3>3. stored'.version = sched.version /\ stored'.spec = stored.spec /\ stored'.eps = stored.eps
          /\ stored' = [version |-> stored'.version, spec |-> stored'.spec, eps |-> stored'.eps]
      BY <3>2
    <3>4. StoredOK(cp, stored')  BY <1>1, <2>1, <3>3 DEF StoredOK
    <3>5. Outcome(stored, sched) = cp.placements[sched.version]  BY <1>3, <2>4 DEF JobOK, JobBase, JobChanges
    <3>6. sched.add = {} /\ DOMAIN stored.spec \cap sched.remove = {}  BY <1>2, <1>3 DEF JobOK
    <3>7. DOMAIN stored.spec = cp.placements[sched.version]  BY <3>5, <3>6 DEF Outcome
    <3>8. PlacementStored'  BY <1>2, <2>1, <3>3, <3>7 DEF PlacementStored
    <3> QED  BY <1>2, <1>4, <2>2, <3>4, <3>8, SchedulerMoves
  <2> QED  BY <2>1, <2>3, <2>4
<1> QED  BY <1>5, <1>6 DEF SavePlacementVersion

LEMMA SendStep ==
  ASSUME SchedulerInv, MakeReconcileEvent
  PROVE  SchedulerInv'
<1>1. CpInv /\ StoredOK(cp, stored) /\ PlacementStored /\ HealthInv  BY DEF SchedulerInv
<1>2. UNCHANGED <<cp, health, stored>> /\ sched' = IdleSched  BY DEF MakeReconcileEvent
<1>3. HealthInv' /\ PlacementStored'  BY <1>1, <1>2, HealthKept, VersionKept
<1>4. StoredOK(cp, stored') /\ SchedOK(cp, stored', sched')  BY <1>1, <1>2, IdleOK
<1> QED  BY <1>2, <1>3, <1>4, SchedulerMoves

LEMMA RebootStep ==
  ASSUME SchedulerInv, Reboot
  PROVE  SchedulerInv'
<1>1. CpInv /\ StoredOK(cp, stored) /\ PlacementStored /\ HealthInv  BY DEF SchedulerInv
<1>2. UNCHANGED <<cp, stored>> /\ sched' = IdleSched  BY DEF Reboot
<1>3. PlacementStored'  BY <1>1, <1>2, VersionKept
<1>4. StoredOK(cp, stored') /\ SchedOK(cp, stored', sched')  BY <1>1, <1>2, IdleOK
<1>5. HealthInv'
  <2>1. health' = [watched |-> DOMAIN stored.spec, of |-> Empty, changes |-> health.changes]
    BY <1>1 DEF HealthInv, Reboot
  <2>2. health'.watched = DOMAIN stored.spec /\ health'.of = Empty
        /\ health' = [watched |-> health'.watched, of |-> health'.of, changes |-> health'.changes]
    BY <2>1
  <2> QED  BY <1>1, <2>2, EmptyDomain DEF HealthInv, StoredOK
<1> QED  BY <1>2, <1>3, <1>4, <1>5, SchedulerMoves

LEMMA StatusesStep ==
  ASSUME HealthInv, NEW tg \in TargetGroups, NEW up, StatusesChange(tg, up)
  PROVE  HealthInv'
<1> DEFINE v == [gen |-> IF Has(health.of, tg) THEN health.of[tg].gen + 1 ELSE 1, up |-> up]
<1>1. health' = [health EXCEPT !.of = Put(health.of, tg, v), !.changes = @ + 1] /\ tg \in health.watched
  BY DEF StatusesChange
<1> HIDE DEF v
<1>2. health' = [watched |-> health.watched, of |-> Put(health.of, tg, v), changes |-> health.changes + 1]
  BY <1>1 DEF HealthInv
<1>3. health'.watched = health.watched /\ health'.of = Put(health.of, tg, v)
      /\ health' = [watched |-> health'.watched, of |-> health'.of, changes |-> health'.changes]
  BY <1>2
<1>4. DOMAIN health'.of = DOMAIN health.of \cup {tg}  BY <1>3 DEF Put
<1> QED  BY <1>1, <1>3, <1>4 DEF HealthInv

-----------------------------------------------------------------------------
LEMMA SchedulerInit == Init => SchedulerInv
<1> SUFFICES ASSUME Init PROVE SchedulerInv
  OBVIOUS
<1>2. /\ cp.placements = <<TargetGroups>> /\ cp.specs = [tg \in TargetGroups |-> <<FirstPort[tg]>>]
      /\ cp = [placements |-> cp.placements, specs |-> cp.specs, log |-> cp.log, changes |-> cp.changes]
  BY DEF Init
<1>3. \A tg \in TargetGroups : FirstPort[tg] \in Ports  BY AgentAssumption
<1>4. CpInv  BY <1>2, <1>3 DEF CpInv
<1>5. Len(cp.placements) = 1  BY <1>2
<1>6. /\ stored.version = 0 /\ stored.spec = Empty /\ stored.eps = Empty
      /\ stored = [version |-> stored.version, spec |-> stored.spec, eps |-> stored.eps]
  BY DEF Init
<1>7. StoredOK(cp, stored) /\ PlacementStored  BY <1>5, <1>6, EmptyDomain DEF StoredOK, PlacementStored
<1>8. HealthInv
  <2>1. health.watched = {} /\ health.of = Empty
        /\ health = [watched |-> health.watched, of |-> health.of, changes |-> health.changes]
    BY DEF Init
  <2> QED  BY <2>1, EmptyDomain DEF HealthInv
<1>9. SchedOK(cp, stored, sched)  BY IdleOK DEF Init
<1> QED  BY <1>4, <1>7, <1>8, <1>9 DEF SchedulerInv

LEMMA SchedulerNext == SchedulerInv /\ [Next]_vars => SchedulerInv'
<1> SUFFICES ASSUME SchedulerInv, [Next]_vars PROVE SchedulerInv'
  OBVIOUS
<1>1. HealthInv  BY DEF SchedulerInv
<1>2. ASSUME UNCHANGED <<stored, sched, health>> PROVE SchedulerInv'
  <2>1. HealthInv'  BY <1>1, <1>2, HealthKept
  <2> QED  BY <1>2, <2>1, SchedulerKept
<1>3. CASE \E tg \in TargetGroups : Change(tg) \/ ForceReconcile(tg) \/ TakeTask(tg)
  BY <1>2, <1>3 DEF Change, ForceReconcile, TakeTask
<1>4. ASSUME NEW tg \in TargetGroups, NEW up \in HealthyEndpoints, StatusesChange(tg, up) PROVE SchedulerInv'
  <2>1. HealthInv'  BY <1>1, <1>4, StatusesStep
  <2>2. UNCHANGED <<stored, sched>>  BY <1>4 DEF StatusesChange
  <2> QED  BY <2>1, <2>2, SchedulerKept
<1>5. CASE \E tgs \in SUBSET TargetGroups : ChangePlacement(tgs)  BY <1>2, <1>5 DEF ChangePlacement
<1>6. CASE Scheduling
  BY <1>6, PollStep, UpdateStep, AddStep, RemoveStep, SaveStep, SendStep DEF Scheduling
<1>7. CASE Working
  <2>1. CASE ReadVersions  BY <1>2, <2>1, RebootStep DEF ReadVersions
  <2>2. CASE Take \/ ReconcileSpec \/ RemoveEndpoints \/ AddEndpoints \/ RemoveTgEndpoints \/ RemoveSpec
    BY <1>2, <2>2 DEF Take, ReconcileSpec, RemoveEndpoints, AddEndpoints, RemoveTgEndpoints, RemoveSpec
  <2> QED  BY <1>7, <2>1, <2>2 DEF Working
<1>8. CASE Crash  BY <1>8, RebootStep DEF Crash
<1>9. CASE UNCHANGED vars  BY <1>2, <1>9 DEF vars
<1> QED  BY <1>3, <1>4, <1>5, <1>6, <1>7, <1>8, <1>9 DEF Next

-----------------------------------------------------------------------------
(* Faults are counted, and ports are only added: what is undisturbed now   *)
(* was undisturbed before.                                                 *)
LEMMA FaultStep ==
  ASSUME FaultsInv, NEW k \in {"crash", "error", "partial", "half"}, Fault(k)
  PROVE  /\ FaultsInv'
         /\ Clean(faults') => Clean(faults)
         /\ k \in {"crash", "partial"} => ~Clean(faults')
<1>1. faults' = [faults EXCEPT ![k] = @ + 1]  BY DEF Fault
<1>2. CASE k = "crash"
  <2>1. faults' = [crash |-> faults.crash + 1, error |-> faults.error, partial |-> faults.partial, half |-> faults.half, panic |-> faults.panic]
    BY <1>1, <1>2 DEF FaultsInv
  <2> QED  BY <1>2, <2>1 DEF FaultsInv, Clean
<1>3. CASE k = "error"
  <2>1. faults' = [crash |-> faults.crash, error |-> faults.error + 1, partial |-> faults.partial, half |-> faults.half, panic |-> faults.panic]
    BY <1>1, <1>3 DEF FaultsInv
  <2> QED  BY <1>3, <2>1 DEF FaultsInv, Clean
<1>4. CASE k = "partial"
  <2>1. faults' = [crash |-> faults.crash, error |-> faults.error, partial |-> faults.partial + 1, half |-> faults.half, panic |-> faults.panic]
    BY <1>1, <1>4 DEF FaultsInv
  <2> QED  BY <1>4, <2>1 DEF FaultsInv, Clean
<1>5. CASE k = "half"
  <2>1. faults' = [crash |-> faults.crash, error |-> faults.error, partial |-> faults.partial, half |-> faults.half + 1, panic |-> faults.panic]
    BY <1>1, <1>5 DEF FaultsInv
  <2> QED  BY <1>5, <2>1 DEF FaultsInv, Clean
<1> QED  BY <1>2, <1>3, <1>4, <1>5

LEMMA PanicStep ==
  ASSUME FaultsInv, faults' = [faults EXCEPT !.panic = 1]
  PROVE  FaultsInv' /\ ~Clean(faults')
<1>1. faults' = [crash |-> faults.crash, error |-> faults.error, partial |-> faults.partial, half |-> faults.half, panic |-> 1]
  BY DEF FaultsInv
<1> QED  BY <1>1 DEF FaultsInv, Clean

LEMMA FaultsNext ==
  ASSUME FaultsInv, [Next]_vars
  PROVE  FaultsInv' /\ (Clean(faults') => Clean(faults))
<1>1. ASSUME UNCHANGED faults PROVE FaultsInv' /\ (Clean(faults') => Clean(faults))  BY <1>1 DEF FaultsInv
<1>2. ASSUME NEW k \in {"crash", "error", "partial", "half"}, Fault(k) PROVE FaultsInv' /\ (Clean(faults') => Clean(faults))
  BY <1>2, FaultStep
<1>3. CASE \E tg \in TargetGroups : Change(tg) \/ ForceReconcile(tg) \/ TakeTask(tg)
  BY <1>1, <1>3 DEF Change, ForceReconcile, TakeTask
<1>4. CASE \E tg \in TargetGroups, up \in HealthyEndpoints : StatusesChange(tg, up)
  BY <1>1, <1>4 DEF StatusesChange
<1>5. CASE \E tgs \in SUBSET TargetGroups : ChangePlacement(tgs)  BY <1>1, <1>5 DEF ChangePlacement
<1>6. CASE Scheduling
  <2>1. CASE Poll  BY <1>1, <1>2, <2>1 DEF Poll
  <2>2. CASE UpdateTargetGroups  BY <1>1, <1>2, <2>2 DEF UpdateTargetGroups, WriteOrFail
  <2>3. CASE AddNewTargetGroups  BY <1>1, <1>2, <2>3 DEF AddNewTargetGroups, WriteOrFail
  <2>4. CASE RemoveTargetGroups  BY <1>1, <1>2, <2>4 DEF RemoveTargetGroups
  <2>5. CASE SavePlacementVersion  BY <1>1, <1>2, <2>5 DEF SavePlacementVersion
  <2>6. CASE MakeReconcileEvent  BY <1>1, <2>6 DEF MakeReconcileEvent
  <2> QED  BY <1>6, <2>1, <2>2, <2>3, <2>4, <2>5, <2>6 DEF Scheduling
<1>7. CASE Working
  <2>0. ASSUME NEW part, RetryAfter(part) PROVE \E k \in {"crash", "error", "partial", "half"} : Fault(k)
    BY <2>0 DEF RetryAfter, Retry
  <2>1. CASE Take  BY <1>1, <2>1 DEF Take
  <2>2. CASE ReconcileSpec  BY <1>1, <1>2, <2>2 DEF ReconcileSpec, Retry
  <2>3. CASE ReadVersions  BY <1>1, <2>3, PanicStep DEF ReadVersions
  <2>4. CASE RemoveEndpoints  BY <1>1, <1>2, <2>0, <2>4 DEF RemoveEndpoints
  <2>5. CASE AddEndpoints  BY <1>1, <1>2, <2>5 DEF AddEndpoints, Retry
  <2>6. CASE RemoveTgEndpoints  BY <1>1, <1>2, <2>0, <2>6 DEF RemoveTgEndpoints
  <2>7. CASE RemoveSpec  BY <1>1, <1>2, <2>7 DEF RemoveSpec, Retry
  <2> QED  BY <1>7, <2>1, <2>2, <2>3, <2>4, <2>5, <2>6, <2>7 DEF Working
<1>8. CASE Crash  BY <1>2, <1>8 DEF Crash
<1>9. CASE UNCHANGED vars  BY <1>1, <1>9 DEF vars
<1> QED  BY <1>3, <1>4, <1>5, <1>6, <1>7, <1>8, <1>9 DEF Next

LEMMA SentPort ==
  ASSUME CpInv, NEW tg \in TargetGroups
  PROVE  SentPorts(cp, tg) # {} /\ SentPorts(cp, tg) \subseteq Ports
<1>1. cp.specs[tg] \in Seq(Ports) /\ cp.specs[tg] # <<>>  BY DEF CpInv
<1>2. SentPorts(cp, tg) # {}  BY <1>1, LastElement DEF SentPorts
<1>3. SentPorts(cp, tg) \subseteq Ports
  <2>1. \A i \in DOMAIN cp.specs[tg] : cp.specs[tg][i] \in Ports  BY <1>1
  <2> QED  BY <2>1 DEF SentPorts, Range
<1> QED  BY <1>2, <1>3

LEMMA Stayed ==
  ASSUME CpInv, FaultsInv, [Next]_vars, Undisturbed'
  PROVE  Undisturbed
<1>1. CpInv' /\ CpGrows(cp, cp')  BY CpNext
<1>2. Clean(faults)  BY FaultsNext DEF Undisturbed, Clean
<1>3. SamePorts
  <2> SUFFICES ASSUME NEW tg \in TargetGroups PROVE SentPorts(cp, tg) = {FirstPort[tg]}
    BY DEF SamePorts, SentPorts
  <2>1. SentPorts(cp, tg) # {}  BY SentPort
  <2>2. SentPorts(cp, tg) \subseteq SentPorts(cp', tg)  BY <1>1 DEF CpGrows
  <2>3. SentPorts(cp', tg) = {FirstPort[tg]}  BY DEF Undisturbed, SamePorts, SentPorts
  <2> QED  BY <2>1, <2>2, <2>3
<1>4. OwnPorts  BY DEF Undisturbed, OwnPorts
<1> QED  BY <1>2, <1>3, <1>4 DEF Undisturbed, Clean

(* While nothing is disturbed a target group has one port, its own.        *)
LEMMA OnePort ==
  ASSUME Undisturbed, NEW tg \in TargetGroups, NEW p \in SentPorts(cp, tg)
  PROVE  p = FirstPort[tg] /\ \A u \in TargetGroups : u # tg => FirstPort[u] # p
<1>1. p = FirstPort[tg]  BY DEF Undisturbed, SamePorts, SentPorts
<1> QED  BY <1>1 DEF Undisturbed, OwnPorts

-----------------------------------------------------------------------------
(* The channel and the queue.                                              *)
LEMMA TasksNext ==
  ASSUME SchedulerInv, TasksInv, [Next]_vars
  PROVE  TasksInv'
<1>0. TaskChanCap \in Nat  BY AgentAssumption
<1>1. ASSUME UNCHANGED tasks PROVE TasksInv'  BY <1>1 DEF TasksInv
<1>2. ASSUME tasks' = <<>> PROVE TasksInv'
  <2>1. tasks' \in Seq(SUBSET TargetGroups) /\ Len(tasks') = 0  BY <1>2
  <2> QED  BY <1>0, <2>1 DEF TasksInv
<1>3. ASSUME NEW T \in SUBSET TargetGroups, Len(tasks) < TaskChanCap, tasks' = Append(tasks, T) PROVE TasksInv'
  <2>1. tasks' \in Seq(SUBSET TargetGroups) /\ Len(tasks') = Len(tasks) + 1 /\ Len(tasks) \in Nat
    BY <1>3 DEF TasksInv
  <2> QED  BY <1>0, <1>3, <2>1 DEF TasksInv
<1>4. ASSUME NEW tg \in TargetGroups, TakeTask(tg) PROVE TasksInv'
  <2>1. tasks \in Seq(SUBSET TargetGroups) /\ tasks # <<>> /\ Len(tasks) \in Nat /\ Len(tasks) <= TaskChanCap
    BY <1>4 DEF TakeTask, TasksInv
  <2>2. /\ Head(tasks) \in SUBSET TargetGroups /\ Tail(tasks) \in Seq(SUBSET TargetGroups)
        /\ Len(Tail(tasks)) = Len(tasks) - 1
    BY <2>1
  <2>3. CASE tasks' = Tail(tasks)  BY <1>0, <2>1, <2>2, <2>3 DEF TasksInv
  <2>4. CASE tasks' = <<Head(tasks) \ {tg}>> \o Tail(tasks)
    <3>1. <<Head(tasks) \ {tg}>> \in Seq(SUBSET TargetGroups) /\ Len(<<Head(tasks) \ {tg}>>) = 1  BY <2>2
    <3>2. tasks' \in Seq(SUBSET TargetGroups) /\ Len(tasks') = 1 + Len(Tail(tasks))  BY <2>2, <2>4, <3>1
    <3> QED  BY <1>0, <2>1, <2>2, <3>2 DEF TasksInv
  <2> QED  BY <1>4, <2>3, <2>4 DEF TakeTask
<1>5. CASE \E tg \in TargetGroups : Change(tg) \/ ForceReconcile(tg)
  BY <1>1, <1>5 DEF Change, ForceReconcile
<1>6. CASE \E tg \in TargetGroups, up \in HealthyEndpoints : StatusesChange(tg, up)
  <2>1. PICK tg \in TargetGroups : tasks' = Append(tasks, {tg}) /\ Len(tasks) < TaskChanCap
    BY <1>6 DEF StatusesChange
  <2>2. {tg} \in SUBSET TargetGroups  OBVIOUS
  <2> QED  BY <1>3, <2>1, <2>2
<1>7. CASE \E tgs \in SUBSET TargetGroups : ChangePlacement(tgs)  BY <1>1, <1>7 DEF ChangePlacement
<1>8. CASE Poll \/ UpdateTargetGroups \/ AddNewTargetGroups \/ RemoveTargetGroups \/ SavePlacementVersion
  BY <1>1, <1>8 DEF Poll, UpdateTargetGroups, AddNewTargetGroups, RemoveTargetGroups, SavePlacementVersion
<1>9. CASE MakeReconcileEvent
  <2>1. sched.send \in SUBSET TargetGroups  BY <1>9 DEF SchedulerInv, SchedOK, MakeReconcileEvent
  <2> QED  BY <1>1, <1>3, <1>9, <2>1 DEF MakeReconcileEvent
<1>10. CASE Working
  BY <1>1, <1>2, <1>10 DEF Working, Take, ReconcileSpec, ReadVersions, RemoveEndpoints, AddEndpoints, RemoveTgEndpoints,
                           RemoveSpec, Reboot
<1>11. CASE Crash \/ UNCHANGED vars  BY <1>1, <1>2, <1>11 DEF Crash, Reboot, vars
<1> QED  BY <1>4, <1>5, <1>6, <1>7, <1>8, <1>9, <1>10, <1>11 DEF Next, Scheduling

LEMMA Enqueued ==
  ASSUME QueueOK(queue), NEW tg \in TargetGroups, NEW n, Enqueue([tg |-> tg, attempt |-> n])
  PROVE  QueueOK(queue')
<1> DEFINE task == [tg |-> tg, attempt |-> n]
<1>1. task.tg \in TargetGroups  OBVIOUS
<1> HIDE DEF task
<1>2. queue' = queue \/ queue' = <<task>>  BY DEF Enqueue, task
<1> QED  BY <1>1, <1>2 DEF QueueOK

LEMMA BusyWith ==
  ASSUME SchedulerInv, WorkInv, worker.pc # "idle"
  PROVE  worker.tg \in TargetGroups
  BY DEF WorkInv, WorkerOK, ActualOK

LEMMA QueueNext ==
  ASSUME SchedulerInv, WorkInv, QueueOK(queue), [Next]_vars
  PROVE  QueueOK(queue')
<1>1. CASE UNCHANGED queue  BY <1>1
<1>2. CASE queue' = <<>>  BY <1>2 DEF QueueOK
<1>3. CASE \E tg \in TargetGroups : ForceReconcile(tg) \/ TakeTask(tg)
  BY <1>3, Enqueued DEF ForceReconcile, TakeTask
<1>4. CASE (\E tg \in TargetGroups : Change(tg)) \/ (\E tgs \in SUBSET TargetGroups : ChangePlacement(tgs))
           \/ (\E tg \in TargetGroups, up \in HealthyEndpoints : StatusesChange(tg, up))
  BY <1>1, <1>4 DEF Change, ChangePlacement, StatusesChange, workerVars
<1>5. CASE Scheduling
  BY <1>1, <1>5 DEF Scheduling, Poll, UpdateTargetGroups, AddNewTargetGroups, RemoveTargetGroups,
                    SavePlacementVersion, MakeReconcileEvent, workerVars
<1>6. CASE Working
  <2>0. ASSUME worker.pc # "idle", NEW k, Retry(k) PROVE QueueOK(queue')  BY <2>0, BusyWith, Enqueued DEF Retry
  <2>1. CASE Take \/ ReadVersions  BY <1>1, <1>2, <2>1 DEF Take, ReadVersions, Reboot
  <2>2. CASE ReconcileSpec  BY <1>1, <2>0, <2>2 DEF ReconcileSpec
  <2>3. CASE RemoveEndpoints  BY <1>1, <2>0, <2>3 DEF RemoveEndpoints, RetryAfter
  <2>4. CASE AddEndpoints
    <3>1. worker.pc = "insert"  BY <2>4 DEF AddEndpoints
    <3>2. CASE \E k : Retry(k)  BY <2>0, <3>1, <3>2
    <3>3. CASE Enqueue([tg |-> worker.tg, attempt |-> worker.attempt + 1])  BY <3>1, <3>3, BusyWith, Enqueued
    <3> QED  BY <1>1, <2>4, <3>2, <3>3 DEF AddEndpoints
  <2>5. CASE RemoveTgEndpoints  BY <1>1, <2>0, <2>5 DEF RemoveTgEndpoints, RetryAfter
  <2>6. CASE RemoveSpec  BY <1>1, <2>0, <2>6 DEF RemoveSpec
  <2> QED  BY <1>6, <2>1, <2>2, <2>3, <2>4, <2>5, <2>6 DEF Working
<1>7. CASE Crash \/ UNCHANGED vars  BY <1>1, <1>2, <1>7 DEF Crash, Reboot, vars, workerVars
<1> QED  BY <1>3, <1>4, <1>5, <1>6, <1>7 DEF Next

-----------------------------------------------------------------------------
(* The worker.                                                             *)
LEMMA WorkKept ==
  ASSUME CpInv, FaultsInv, WorkInv, [Next]_vars, UNCHANGED <<actual, kernel, known, worker>>
  PROVE  WorkInv'
<1>1. CpInv' /\ CpGrows(cp, cp')  BY CpNext
<1>2. ActualOK(cp, actual, known) /\ WorkerOK(cp, actual, worker)  BY DEF WorkInv
<1>3. \A tg \in TargetGroups : SentPorts(cp, tg) \subseteq SentPorts(cp', tg)  BY <1>1 DEF CpGrows
<1>4. ActualOK(cp', actual, known)  BY <1>2, <1>3 DEF ActualOK
<1>5. WorkerOK(cp', actual, worker)  BY <1>2, <1>3 DEF WorkerOK
<1>6. ActualOK(cp, actual, known)' /\ WorkerOK(cp, actual, worker)'  BY <1>4, <1>5
<1>7. KernelInv'
  <2> SUFFICES ASSUME Undisturbed' PROVE Noted(actual, kernel, worker)'
    BY DEF KernelInv
  <2>1. Noted(actual, kernel, worker)  BY Stayed DEF WorkInv, KernelInv
  <2> QED  BY <2>1
<1>8. KernelPorts'  BY DEF WorkInv, KernelPorts
<1> QED  BY <1>6, <1>7, <1>8 DEF WorkInv

LEMMA WorkMoves ==
  ASSUME UNCHANGED cp, ActualOK(cp, actual', known'), DOMAIN kernel' \subseteq Ports, WorkerOK(cp, actual', worker'),
         Undisturbed' => Noted(actual', kernel', worker')
  PROVE  WorkInv'
<1>1. ActualOK(cp', actual', known') /\ WorkerOK(cp', actual', worker')  OBVIOUS
<1>2. ActualOK(cp, actual, known)' /\ WorkerOK(cp, actual, worker)' /\ KernelPorts'  BY <1>1 DEF KernelPorts
<1>3. KernelInv'  BY DEF KernelInv
<1> QED  BY <1>2, <1>3 DEF WorkInv

LEMMA IdleWorkerOK ==
  ASSUME NEW c, NEW a
  PROVE  WorkerOK(c, a, IdleWorker) /\ IdleWorker.pc = "idle"
  BY DEF WorkerOK, IdleWorker, Stages

(* Destinations are taken out of services, and no service is.              *)
Shrinks(k, n) == DOMAIN n = DOMAIN k /\ \A p \in DOMAIN k : DOMAIN n[p] \subseteq DOMAIN k[p]

LEMMA NotedShrinks ==
  ASSUME NEW a, NEW k, NEW w, Noted(a, k, w), NEW n, Shrinks(k, n), NEW v, v.pc # "insert"
  PROVE  Noted(a, n, v)
  BY DEF Noted, Shrinks

LEMMA SameShrinks ==
  ASSUME NEW k
  PROVE  Shrinks(k, k)
  BY DEF Shrinks

LEMMA DeletedShrinks ==
  ASSUME NEW tg, NEW eps
  PROVE  /\ Shrinks(kernel, Deleted(tg, eps))
         /\ Has(known, tg) /\ known[tg] \in DOMAIN kernel
            => DOMAIN Deleted(tg, eps)[known[tg]] = DOMAIN kernel[known[tg]] \ eps
<1>1. CASE Has(known, tg) /\ known[tg] \in DOMAIN kernel
  <2> DEFINE p == known[tg]
             n == [kernel EXCEPT ![p] = Without(kernel[p], eps)]
  <2>1. Deleted(tg, eps) = n  BY <1>1 DEF Deleted
  <2>2. DOMAIN n = DOMAIN kernel /\ \A q \in DOMAIN kernel : n[q] = IF q = p THEN Without(kernel[p], eps) ELSE kernel[q]
    OBVIOUS
  <2>3. DOMAIN Without(kernel[p], eps) = DOMAIN kernel[p] \ eps  BY WithoutValues
  <2> HIDE DEF n, p
  <2>4. Shrinks(kernel, n)  BY <2>2, <2>3 DEF Shrinks
  <2>5. p \in DOMAIN kernel  BY <1>1 DEF p
  <2>6. DOMAIN n[p] = DOMAIN kernel[p] \ eps  BY <2>2, <2>3, <2>5
  <2> QED  BY <2>1, <2>4, <2>6 DEF p
<1>2. CASE ~(Has(known, tg) /\ known[tg] \in DOMAIN kernel)
  <2>1. Deleted(tg, eps) = kernel  BY <1>2 DEF Deleted
  <2> QED  BY <1>2, <2>1, SameShrinks
<1> QED  BY <1>1, <1>2

(* A step after which the worker is idle and the kernel holds no more.     *)
LEMMA IdleStep ==
  ASSUME CpInv, FaultsInv, WorkInv, [Next]_vars, UNCHANGED <<cp, actual, known>>, worker' = IdleWorker,
         DOMAIN kernel' = DOMAIN kernel, Undisturbed' => Shrinks(kernel, kernel')
  PROVE  WorkInv'
<1>1. ActualOK(cp, actual', known') /\ WorkerOK(cp, actual', worker') /\ worker'.pc # "insert"
  BY IdleWorkerOK DEF WorkInv
<1>2. DOMAIN kernel' \subseteq Ports  BY DEF WorkInv, KernelPorts
<1>3. Undisturbed' => Noted(actual', kernel', worker')
  <2> SUFFICES ASSUME Undisturbed' PROVE Noted(actual, kernel', worker')
    OBVIOUS
  <2>1. Noted(actual, kernel, worker)  BY Stayed DEF WorkInv, KernelInv
  <2> QED  BY <1>1, <2>1, NotedShrinks
<1> QED  BY <1>1, <1>2, <1>3, WorkMoves

(* The worker goes on, and nothing else changes.                           *)
LEMMA NextStage ==
  ASSUME CpInv, FaultsInv, WorkInv, [Next]_vars, UNCHANGED <<cp, actual, known, kernel>>,
         WorkerOK(cp, actual, worker'), worker'.pc # "insert"
  PROVE  WorkInv'
<1>1. ActualOK(cp, actual', known') /\ WorkerOK(cp, actual', worker')  BY DEF WorkInv
<1>2. DOMAIN kernel' \subseteq Ports  BY DEF WorkInv, KernelPorts
<1>3. Undisturbed' => Noted(actual', kernel', worker')
  <2> SUFFICES ASSUME Undisturbed' PROVE Noted(actual, kernel, worker')
    OBVIOUS
  <2>1. Noted(actual, kernel, worker)  BY Stayed DEF WorkInv, KernelInv
  <2> QED  BY <2>1, SameShrinks, NotedShrinks
<1> QED  BY <1>1, <1>2, <1>3, WorkMoves

LEMMA TakeStep ==
  ASSUME SchedulerInv, ReconcilerInv, [Next]_vars, Take
  PROVE  WorkInv'
<1>1. CpInv /\ FaultsInv /\ WorkInv /\ StoredOK(cp, stored) /\ QueueOK(queue)  BY DEF SchedulerInv, ReconcilerInv
<1>2. UNCHANGED <<cp, actual, known, kernel>> /\ queue # <<>>  BY DEF Take, vppVars
<1> DEFINE t == queue[1]
<1>3. t.tg \in TargetGroups  BY <1>1, <1>2 DEF QueueOK
<1>4. \/ worker' = IdleWorker
      \/ /\ Has(actual.spec, t.tg)
         /\ \/ worker' = [pc |-> "removeEps", tg |-> t.tg, attempt |-> t.attempt]
            \/ worker' = [pc |-> "read", tg |-> t.tg, attempt |-> t.attempt]
      \/ /\ Has(stored.spec, t.tg)
         /\ worker' = [pc |-> "spec", tg |-> t.tg, attempt |-> t.attempt, spec |-> stored.spec[t.tg]]
  BY DEF Take
<1> HIDE DEF t
<1>5. WorkerOK(cp, actual, worker') /\ worker'.pc # "insert"
  <2>1. CASE worker' = IdleWorker  BY <2>1, IdleWorkerOK
  <2>2. CASE Has(actual.spec, t.tg) /\ worker' = [pc |-> "removeEps", tg |-> t.tg, attempt |-> t.attempt]
    BY <2>2 DEF WorkerOK, Stages, Has
  <2>3. CASE Has(actual.spec, t.tg) /\ worker' = [pc |-> "read", tg |-> t.tg, attempt |-> t.attempt]
    BY <2>3 DEF WorkerOK, Stages, Has
  <2>4. CASE /\ Has(stored.spec, t.tg)
             /\ worker' = [pc |-> "spec", tg |-> t.tg, attempt |-> t.attempt, spec |-> stored.spec[t.tg]]
    <3>1. stored.spec[t.tg].port \in SentPorts(cp, t.tg)  BY <1>1, <2>4 DEF StoredOK, Has
    <3>2. worker'.pc = "spec" /\ worker'.tg = t.tg /\ worker'.spec = stored.spec[t.tg]  BY <2>4
    <3> QED  BY <1>3, <3>1, <3>2 DEF WorkerOK, Stages
  <2> QED  BY <1>4, <2>1, <2>2, <2>3, <2>4
<1> QED  BY <1>1, <1>2, <1>5, NextStage

LEMMA SpecStep ==
  ASSUME SchedulerInv, ReconcilerInv, [Next]_vars, ReconcileSpec
  PROVE  WorkInv'
<1>1. CpInv /\ FaultsInv /\ WorkInv  BY DEF SchedulerInv, ReconcilerInv
<1>2. UNCHANGED cp /\ worker.pc = "spec"  BY DEF ReconcileSpec
<1>3. ActualOK(cp, actual, known) /\ KernelPorts /\ WorkerOK(cp, actual, worker)  BY <1>1 DEF WorkInv
<1>4. CASE Retry("error") /\ UNCHANGED <<kernel, known, actual>>
  <2>1. worker' = IdleWorker  BY <1>4 DEF Retry
  <2> QED  BY <1>1, <1>2, <1>4, <2>1, SameShrinks, IdleStep
<1> DEFINE tg == worker.tg
           s == worker.spec
<1>5. CASE /\ ApplySpec(tg, s.port) /\ SetActualSpec(tg, s)
           /\ worker' = [pc |-> "read", tg |-> tg, attempt |-> worker.attempt]
  <2>1. tg \in TargetGroups /\ s.port \in SentPorts(cp, tg) /\ s.port \in Ports
    BY <1>1, <1>2, <1>3, SentPort DEF WorkerOK
  <2>2. /\ kernel' = IF s.port \in DOMAIN kernel THEN kernel ELSE Put(kernel, s.port, Empty)
        /\ known' = Put(known, tg, s.port)
        /\ actual' = [actual EXCEPT !.spec = Put(actual.spec, tg, s)]
    BY <1>5 DEF ApplySpec, SetActualSpec
  <2>3. worker'.pc = "read" /\ worker'.tg = tg  BY <1>5
  <2> HIDE DEF tg, s
  <2>4. actual' = [spec |-> Put(actual.spec, tg, s), eps |-> actual.eps]  BY <1>3, <2>2 DEF ActualOK
  <2>5. actual'.spec = Put(actual.spec, tg, s) /\ actual'.eps = actual.eps
        /\ actual' = [spec |-> actual'.spec, eps |-> actual'.eps]
    BY <2>4
  <2>6. /\ DOMAIN actual'.spec = DOMAIN actual.spec \cup {tg} /\ actual'.spec[tg] = s
        /\ \A x \in DOMAIN actual.spec : x # tg => actual'.spec[x] = actual.spec[x]
    BY <2>5 DEF Put
  <2>7. /\ DOMAIN known' = DOMAIN known \cup {tg} /\ known'[tg] = s.port
        /\ \A x \in DOMAIN known : x # tg => known'[x] = known[x]
    BY <2>2 DEF Put
  <2>8. ActualOK(cp, actual', known')
    <3>1. \A x \in DOMAIN actual'.spec : actual'.spec[x].port \in SentPorts(cp, x)
      BY <1>3, <2>1, <2>6 DEF ActualOK
    <3>2. \A x \in DOMAIN known' : known'[x] \in SentPorts(cp, x)
      BY <1>3, <2>1, <2>7 DEF ActualOK
    <3> QED  BY <1>3, <2>1, <2>5, <2>6, <2>7, <3>1, <3>2 DEF ActualOK
  <2>9. WorkerOK(cp, actual', worker')  BY <2>3, <2>6 DEF WorkerOK, Stages
  <2>10. /\ DOMAIN kernel' = DOMAIN kernel \cup {s.port}
         /\ s.port \notin DOMAIN kernel => kernel'[s.port] = Empty
         /\ \A p \in DOMAIN kernel : kernel'[p] = kernel[p]
    BY <2>2 DEF Put
  <2>11. DOMAIN kernel' \subseteq Ports  BY <1>3, <2>1, <2>10 DEF KernelPorts
  <2>12. ASSUME Undisturbed' PROVE Noted(actual', kernel', worker')
    <3>1. Undisturbed  BY <1>1, <2>12, Stayed
    <3>2. Noted(actual, kernel, worker)  BY <1>1, <3>1 DEF WorkInv, KernelInv
    <3>3. s.port = FirstPort[tg] /\ \A u \in TargetGroups : u # tg => FirstPort[u] # s.port
      BY <2>1, <3>1, OnePort
    <3> SUFFICES ASSUME NEW u \in TargetGroups, FirstPort[u] \in DOMAIN kernel'
                 PROVE  Has(actual'.spec, u) /\ DOMAIN kernel'[FirstPort[u]] \subseteq EndpointsOf(actual', u)
      BY <2>3 DEF Noted
    <3>4. EndpointsOf(actual', u) = EndpointsOf(actual, u)  BY <2>5 DEF EndpointsOf
    <3>5. CASE FirstPort[u] \in DOMAIN kernel
      BY <2>6, <2>10, <3>2, <3>4, <3>5 DEF Noted, Has
    <3>6. CASE FirstPort[u] \notin DOMAIN kernel
      <4>1. FirstPort[u] = s.port  BY <2>10, <3>6
      <4>2. u = tg  BY <3>3, <4>1
      <4>3. DOMAIN kernel'[FirstPort[u]] = {}  BY <2>10, <3>6, <4>1, EmptyDomain
      <4> QED  BY <2>6, <4>2, <4>3 DEF Has
    <3> QED  BY <3>5, <3>6
  <2> QED  BY <1>2, <2>8, <2>9, <2>11, <2>12, WorkMoves
<1> QED  BY <1>4, <1>5 DEF ReconcileSpec

LEMMA RebootWork ==
  ASSUME Reboot, WorkInv, ~Clean(faults')
  PROVE  WorkInv'
<1>1. /\ actual' = [spec |-> Empty, eps |-> Empty] /\ known' = Empty /\ worker' = IdleWorker
      /\ UNCHANGED <<cp, kernel>>
  BY DEF Reboot
<1>2. /\ actual'.spec = Empty /\ actual'.eps = Empty /\ actual' = [spec |-> actual'.spec, eps |-> actual'.eps]
  BY <1>1
<1>3. ActualOK(cp, actual', known')  BY <1>1, <1>2, EmptyDomain DEF ActualOK
<1>4. WorkerOK(cp, actual', worker')  BY <1>1, IdleWorkerOK
<1>5. DOMAIN kernel' \subseteq Ports  BY <1>1 DEF WorkInv, KernelPorts
<1>6. ~Undisturbed'  BY DEF Undisturbed, Clean
<1> QED  BY <1>1, <1>3, <1>4, <1>5, <1>6, WorkMoves

LEMMA ReadStep ==
  ASSUME SchedulerInv, ReconcilerInv, [Next]_vars, ReadVersions
  PROVE  WorkInv'
<1>1. CpInv /\ FaultsInv /\ WorkInv  BY DEF SchedulerInv, ReconcilerInv
<1>2. CASE Reboot /\ faults' = [faults EXCEPT !.panic = 1]  BY <1>1, <1>2, PanicStep, RebootWork
<1>3. CASE /\ UNCHANGED <<cp, actual, vppVars>>
           /\ \/ worker' = IdleWorker
              \/ worker' = [pc |-> "delete", tg |-> worker.tg, attempt |-> worker.attempt,
                            desired |-> stored.eps[worker.tg], gen |-> Gen(worker.tg)]
  <2>1. worker.tg \in DOMAIN actual.spec  BY <1>1 DEF ReadVersions, WorkInv, WorkerOK, Stages
  <2>2. WorkerOK(cp, actual, worker') /\ worker'.pc # "insert"
    <3>1. CASE worker' = IdleWorker  BY <3>1, IdleWorkerOK
    <3>2. CASE worker' = [pc |-> "delete", tg |-> worker.tg, attempt |-> worker.attempt,
                          desired |-> stored.eps[worker.tg], gen |-> Gen(worker.tg)]
      <4>1. worker'.pc = "delete" /\ worker'.tg = worker.tg  BY <3>2
      <4> QED  BY <2>1, <4>1 DEF WorkerOK, Stages
    <3> QED  BY <1>3, <3>1, <3>2
  <2> QED  BY <1>1, <1>3, <2>2, NextStage DEF vppVars
<1> QED  BY <1>2, <1>3 DEF ReadVersions

(* What stays and what is added is what will be noted.                     *)
LEMMA DiffParts ==
  ASSUME NEW desired, NEW act, NEW up
  PROVE  /\ DOMAIN EndpointsDiff(desired, act, up).add \subseteq DOMAIN EndpointsDiff(desired, act, up).actual
         /\ DOMAIN act \ EndpointsDiff(desired, act, up).delete \subseteq DOMAIN EndpointsDiff(desired, act, up).actual
<1> DEFINE kept == DOMAIN desired \cap DOMAIN act \cap up
           new == (DOMAIN desired \cap up) \ DOMAIN act
           changed == {e \in kept : desired[e] # act[e]}
           d == EndpointsDiff(desired, act, up)
<1>1. /\ d.add = Restrict(desired, new \cup changed) /\ d.delete = changed \cup (DOMAIN act \ kept)
      /\ d.actual = [e \in kept \cup new |-> IF e \in kept THEN act[e] ELSE desired[e]]
  BY DEF EndpointsDiff
<1> HIDE DEF d
<1>2. DOMAIN d.add = new \cup changed  BY <1>1 DEF Restrict
<1>3. DOMAIN d.actual = kept \cup new  BY <1>1
<1>4. DOMAIN d.add \subseteq DOMAIN d.actual  BY <1>2, <1>3
<1>5. DOMAIN act \ d.delete \subseteq DOMAIN d.actual  BY <1>1, <1>3
<1> QED  BY <1>4, <1>5 DEF d

LEMMA NotedEndpoints ==
  ASSUME NEW tg
  PROVE  DOMAIN ActualEndpoints(tg) = EndpointsOf(actual, tg)
  BY EmptyDomain DEF ActualEndpoints, EndpointsOf

LEMMA RemoveEndpointsStep ==
  ASSUME SchedulerInv, ReconcilerInv, [Next]_vars, RemoveEndpoints
  PROVE  WorkInv'
<1>1. CpInv /\ FaultsInv /\ WorkInv  BY DEF SchedulerInv, ReconcilerInv
<1>2. UNCHANGED <<cp, actual, known>> /\ worker.pc = "delete"  BY DEF RemoveEndpoints
<1>3. ActualOK(cp, actual, known) /\ KernelPorts /\ WorkerOK(cp, actual, worker)  BY <1>1 DEF WorkInv
<1> DEFINE tg == worker.tg
           d == EndpointsDiff(worker.desired.eps, ActualEndpoints(tg), Healthy(tg))
<1>4. CASE \E part \in Partly(d.delete) : RetryAfter(part) /\ kernel' = Deleted(tg, part)
  <2>1. worker' = IdleWorker  BY <1>4 DEF RetryAfter, Retry
  <2>2. Shrinks(kernel, kernel')  BY <1>4, DeletedShrinks
  <2>3. DOMAIN kernel' = DOMAIN kernel  BY <2>2 DEF Shrinks
  <2> QED  BY <1>1, <1>2, <2>1, <2>2, <2>3, IdleStep
<1>5. CASE /\ kernel' = Deleted(tg, d.delete)
           /\ worker' = [pc |-> "insert", tg |-> tg, attempt |-> worker.attempt, add |-> d.add,
                         actual |-> [ver |-> worker.desired.ver, eps |-> d.actual], gen |-> worker.gen]
  <2>1. tg \in DOMAIN actual.spec /\ tg \in TargetGroups /\ tg \in DOMAIN known /\ known[tg] \in SentPorts(cp, tg)
    BY <1>2, <1>3 DEF ActualOK, WorkerOK, Stages
  <2>2. DOMAIN d.add \subseteq DOMAIN d.actual /\ EndpointsOf(actual, tg) \ d.delete \subseteq DOMAIN d.actual
    BY DiffParts, NotedEndpoints
  <2>3. worker'.pc = "insert" /\ worker'.tg = tg /\ worker'.add = d.add /\ worker'.actual.eps = d.actual
    BY <1>5
  <2>4. kernel' = Deleted(tg, d.delete)  BY <1>5
  <2> HIDE DEF d, tg
  <2>5. WorkerOK(cp, actual', worker')  BY <1>2, <2>1, <2>2, <2>3 DEF WorkerOK, Stages
  <2>6. Shrinks(kernel, kernel')  BY <2>4, DeletedShrinks
  <2>7. DOMAIN kernel' \subseteq Ports  BY <1>3, <2>6 DEF Shrinks, KernelPorts
  <2>8. ASSUME Undisturbed' PROVE Noted(actual', kernel', worker')
    <3>1. Undisturbed  BY <1>1, <2>8, Stayed
    <3>2. Noted(actual, kernel, worker)  BY <1>1, <3>1 DEF WorkInv, KernelInv
    <3>3. known[tg] = FirstPort[tg]  BY <2>1, <3>1, OnePort
    <3> SUFFICES ASSUME NEW u \in TargetGroups, FirstPort[u] \in DOMAIN kernel'
                 PROVE  /\ Has(actual.spec, u) /\ DOMAIN kernel'[FirstPort[u]] \subseteq EndpointsOf(actual, u)
                        /\ u = tg => DOMAIN kernel'[FirstPort[u]] \subseteq DOMAIN d.actual
      BY <1>2, <2>3 DEF Noted
    <3>4. FirstPort[u] \in DOMAIN kernel /\ DOMAIN kernel'[FirstPort[u]] \subseteq DOMAIN kernel[FirstPort[u]]
      BY <2>6 DEF Shrinks
    <3>5. Has(actual.spec, u) /\ DOMAIN kernel[FirstPort[u]] \subseteq EndpointsOf(actual, u)
      BY <3>2, <3>4 DEF Noted
    <3>6. ASSUME u = tg PROVE DOMAIN kernel'[FirstPort[u]] \subseteq DOMAIN d.actual
      <4>1. DOMAIN kernel'[FirstPort[u]] = DOMAIN kernel[FirstPort[u]] \ d.delete
        BY <2>1, <2>4, <3>3, <3>4, <3>6, DeletedShrinks DEF Has
      <4> QED  BY <2>2, <3>5, <3>6, <4>1
    <3> QED  BY <3>4, <3>5, <3>6
  <2> QED  BY <1>2, <1>3, <2>5, <2>7, <2>8, WorkMoves
<1> QED  BY <1>4, <1>5 DEF RemoveEndpoints

LEMMA RemoveTgEndpointsStep ==
  ASSUME SchedulerInv, ReconcilerInv, [Next]_vars, RemoveTgEndpoints
  PROVE  WorkInv'
<1>1. CpInv /\ FaultsInv /\ WorkInv  BY DEF SchedulerInv, ReconcilerInv
<1>2. UNCHANGED <<cp, actual, known>> /\ worker.pc = "removeEps"  BY DEF RemoveTgEndpoints
<1>3. ActualOK(cp, actual, known) /\ KernelPorts /\ WorkerOK(cp, actual, worker)  BY <1>1 DEF WorkInv
<1>4. Shrinks(kernel, kernel')  BY DeletedShrinks DEF RemoveTgEndpoints
<1>5. DOMAIN kernel' = DOMAIN kernel  BY <1>4 DEF Shrinks
<1>6. CASE \E part : RetryAfter(part)
  <2>1. worker' = IdleWorker  BY <1>6 DEF RetryAfter, Retry
  <2> QED  BY <1>1, <1>2, <1>4, <1>5, <2>1, IdleStep
<1>7. CASE worker' = [worker EXCEPT !.pc = "removeSpec"]
  <2>1. worker = [pc |-> worker.pc, tg |-> worker.tg, attempt |-> worker.attempt] /\ worker.tg \in DOMAIN actual.spec
    BY <1>2, <1>3 DEF WorkerOK, Stages
  <2>2. worker' = [pc |-> "removeSpec", tg |-> worker.tg, attempt |-> worker.attempt]  BY <1>7, <2>1
  <2>3. worker'.pc = "removeSpec" /\ worker'.tg = worker.tg
        /\ worker' = [pc |-> worker'.pc, tg |-> worker'.tg, attempt |-> worker'.attempt]
    BY <2>2
  <2>4. WorkerOK(cp, actual', worker')  BY <1>2, <2>1, <2>3 DEF WorkerOK, Stages
  <2>5. DOMAIN kernel' \subseteq Ports  BY <1>3, <1>5 DEF KernelPorts
  <2>6. ASSUME Undisturbed' PROVE Noted(actual', kernel', worker')
    <3>1. Noted(actual, kernel, worker)  BY <1>1, <2>6, Stayed DEF WorkInv, KernelInv
    <3>2. worker'.pc # "insert"  BY <2>3
    <3> QED  BY <1>2, <1>4, <3>1, <3>2, NotedShrinks
  <2> QED  BY <1>2, <1>3, <2>4, <2>5, <2>6, WorkMoves
<1> QED  BY <1>6, <1>7 DEF RemoveTgEndpoints

LEMMA RemoveSpecStep ==
  ASSUME SchedulerInv, ReconcilerInv, [Next]_vars, RemoveSpec
  PROVE  WorkInv'
<1>1. CpInv /\ FaultsInv /\ WorkInv  BY DEF SchedulerInv, ReconcilerInv
<1>2. UNCHANGED cp /\ worker.pc = "removeSpec"  BY DEF RemoveSpec
<1>3. ActualOK(cp, actual, known) /\ KernelPorts /\ WorkerOK(cp, actual, worker)  BY <1>1 DEF WorkInv
<1>4. CASE Retry("error") /\ UNCHANGED <<kernel, known, actual>>
  <2>1. worker' = IdleWorker  BY <1>4 DEF Retry
  <2> QED  BY <1>1, <1>2, <1>4, <2>1, SameShrinks, IdleStep
<1> DEFINE tg == worker.tg
           port == actual.spec[tg].port
<1>5. CASE RemoveService(tg, port) /\ DeleteActual(tg) /\ worker' = IdleWorker
  <2>1. tg \in DOMAIN actual.spec /\ tg \in TargetGroups /\ port \in SentPorts(cp, tg)
    BY <1>2, <1>3 DEF ActualOK, WorkerOK, Stages
  <2>2. /\ kernel' = Without(kernel, {port}) /\ known' = Without(known, {tg})
        /\ actual' = [spec |-> Without(actual.spec, {tg}), eps |-> Without(actual.eps, {tg})]
    BY <1>5 DEF RemoveService, DeleteActual
  <2> HIDE DEF tg, port
  <2>3. /\ actual'.spec = Without(actual.spec, {tg}) /\ actual'.eps = Without(actual.eps, {tg})
        /\ actual' = [spec |-> actual'.spec, eps |-> actual'.eps]
    BY <2>2
  <2>4. /\ DOMAIN actual'.spec = DOMAIN actual.spec \ {tg}
        /\ \A x \in DOMAIN actual.spec \ {tg} : actual'.spec[x] = actual.spec[x]
    BY <2>3 DEF Without, Restrict
  <2>5. /\ DOMAIN actual'.eps = DOMAIN actual.eps \ {tg}
        /\ \A x \in DOMAIN actual.eps \ {tg} : actual'.eps[x] = actual.eps[x]
    BY <2>3 DEF Without, Restrict
  <2>6. /\ DOMAIN known' = DOMAIN known \ {tg}
        /\ \A x \in DOMAIN known \ {tg} : known'[x] = known[x]
    BY <2>2 DEF Without, Restrict
  <2>7. /\ DOMAIN kernel' = DOMAIN kernel \ {port}
        /\ \A p \in DOMAIN kernel \ {port} : kernel'[p] = kernel[p]
    BY <2>2 DEF Without, Restrict
  <2>8. ActualOK(cp, actual', known')  BY <1>3, <2>3, <2>4, <2>5, <2>6 DEF ActualOK
  <2>9. WorkerOK(cp, actual', worker') /\ worker'.pc = "idle"  BY <1>5, IdleWorkerOK
  <2>10. DOMAIN kernel' \subseteq Ports  BY <1>3, <2>7 DEF KernelPorts
  <2>11. ASSUME Undisturbed' PROVE Noted(actual', kernel', worker')
    <3>1. Undisturbed  BY <1>1, <2>11, Stayed
    <3>2. Noted(actual, kernel, worker)  BY <1>1, <3>1 DEF WorkInv, KernelInv
    <3>3. port = FirstPort[tg]  BY <2>1, <3>1, OnePort
    <3> SUFFICES ASSUME NEW u \in TargetGroups, FirstPort[u] \in DOMAIN kernel'
                 PROVE  Has(actual'.spec, u) /\ DOMAIN kernel'[FirstPort[u]] \subseteq EndpointsOf(actual', u)
      BY <2>9 DEF Noted
    <3>4. u # tg /\ FirstPort[u] \in DOMAIN kernel /\ kernel'[FirstPort[u]] = kernel[FirstPort[u]]  BY <2>7, <3>3
    <3>5. EndpointsOf(actual', u) = EndpointsOf(actual, u)  BY <2>5, <3>4 DEF EndpointsOf, Has
    <3> QED  BY <2>4, <3>2, <3>4, <3>5 DEF Noted, Has
  <2> QED  BY <1>2, <2>8, <2>9, <2>10, <2>11, WorkMoves
<1> QED  BY <1>4, <1>5 DEF RemoveSpec

LEMMA AddEndpointsStep ==
  ASSUME SchedulerInv, ReconcilerInv, [Next]_vars, AddEndpoints
  PROVE  WorkInv'
<1>1. CpInv /\ FaultsInv /\ WorkInv  BY DEF SchedulerInv, ReconcilerInv
<1>2. UNCHANGED <<cp, known>> /\ worker.pc = "insert"  BY DEF AddEndpoints
<1>3. ActualOK(cp, actual, known) /\ KernelPorts /\ WorkerOK(cp, actual, worker)  BY <1>1 DEF WorkInv
<1> DEFINE tg == worker.tg
           port == known[tg]
<1>4. tg \in DOMAIN actual.spec /\ tg \in TargetGroups /\ tg \in DOMAIN known /\ port \in SentPorts(cp, tg)
      /\ DOMAIN worker.add \subseteq DOMAIN worker.actual.eps
  BY <1>2, <1>3 DEF ActualOK, WorkerOK, Stages
<1>5. ASSUME NEW eps, port \in DOMAIN kernel, kernel' = Inserted(port, eps)
      PROVE  /\ DOMAIN kernel' = DOMAIN kernel /\ DOMAIN kernel'[port] = DOMAIN kernel[port] \cup DOMAIN eps
             /\ \A p \in DOMAIN kernel : p # port => kernel'[p] = kernel[p]
  BY <1>5 DEF Inserted
<1>6. CASE worker' = IdleWorker /\ UNCHANGED <<kernel, actual>>
  BY <1>1, <1>2, <1>6, SameShrinks, IdleStep
<1>7. ASSUME port \in DOMAIN kernel, NEW part \in Partly(DOMAIN worker.add),
             Retry(IF part # {} THEN "partial" ELSE IF NoneDeleted(tg) THEN "error" ELSE "half"),
             kernel' = Inserted(port, Restrict(worker.add, part)), UNCHANGED actual
      PROVE  WorkInv'
  <2>1. DOMAIN Restrict(worker.add, part) = part  BY DEF Restrict
  <2>2. /\ DOMAIN kernel' = DOMAIN kernel /\ DOMAIN kernel'[port] = DOMAIN kernel[port] \cup part
        /\ \A p \in DOMAIN kernel : p # port => kernel'[p] = kernel[p]
    BY <1>5, <1>7, <2>1
  <2>3. worker' = IdleWorker  BY <1>7 DEF Retry
  <2>4. ASSUME Undisturbed' PROVE Shrinks(kernel, kernel')
    <3>1. part # {} => Fault("partial")  BY <1>7 DEF Retry
    <3>2. part = {}  BY <1>1, <2>4, <3>1, FaultStep DEF Undisturbed, Clean
    <3> QED  BY <2>2, <3>2 DEF Shrinks
  <2> QED  BY <1>1, <1>2, <1>7, <2>2, <2>3, <2>4, IdleStep
<1>8. CASE /\ port \in DOMAIN kernel \/ worker.add = Empty
           /\ kernel' = IF port \in DOMAIN kernel THEN Inserted(port, worker.add) ELSE kernel
           /\ SetActualEndpoints(tg, worker.actual) /\ worker' = IdleWorker
  <2> DEFINE noted == worker.actual
             add == worker.add
  <2>1. actual' = [actual EXCEPT !.eps = Put(actual.eps, tg, noted)]  BY <1>8 DEF SetActualEndpoints
  <2>2. kernel' = IF port \in DOMAIN kernel THEN Inserted(port, add) ELSE kernel  BY <1>8
  <2>3. DOMAIN add \subseteq DOMAIN noted.eps  BY <1>4
  <2>4. /\ DOMAIN kernel' = DOMAIN kernel
        /\ port \in DOMAIN kernel => DOMAIN kernel'[port] = DOMAIN kernel[port] \cup DOMAIN add
        /\ \A p \in DOMAIN kernel : p # port => kernel'[p] = kernel[p]
    BY <1>5, <2>2
  <2>5. ASSUME Undisturbed PROVE port \in DOMAIN kernel => DOMAIN kernel[port] \subseteq DOMAIN noted.eps
    <3>1. Noted(actual, kernel, worker)  BY <1>1, <2>5 DEF WorkInv, KernelInv
    <3>2. port = FirstPort[tg]  BY <1>4, <2>5, OnePort
    <3> QED  BY <1>2, <1>4, <3>1, <3>2 DEF Noted
  <2> HIDE DEF tg, port, noted, add
  <2>6. actual' = [spec |-> actual.spec, eps |-> Put(actual.eps, tg, noted)]  BY <1>3, <2>1 DEF ActualOK
  <2>7. /\ actual'.spec = actual.spec /\ actual'.eps = Put(actual.eps, tg, noted)
        /\ actual' = [spec |-> actual'.spec, eps |-> actual'.eps]
    BY <2>6
  <2>8. /\ DOMAIN actual'.eps = DOMAIN actual.eps \cup {tg} /\ actual'.eps[tg] = noted
        /\ \A x \in DOMAIN actual.eps : x # tg => actual'.eps[x] = actual.eps[x]
    BY <2>7 DEF Put
  <2>9. ActualOK(cp, actual', known')  BY <1>2, <1>3, <1>4, <2>7, <2>8 DEF ActualOK
  <2>10. WorkerOK(cp, actual', worker') /\ worker'.pc = "idle"  BY <1>8, IdleWorkerOK
  <2>11. DOMAIN kernel' \subseteq Ports  BY <1>3, <2>4 DEF KernelPorts
  <2>12. ASSUME Undisturbed' PROVE Noted(actual', kernel', worker')
    <3>1. Undisturbed  BY <1>1, <2>12, Stayed
    <3>2. Noted(actual, kernel, worker)  BY <1>1, <3>1 DEF WorkInv, KernelInv
    <3>3. port = FirstPort[tg] /\ \A u \in TargetGroups : u # tg => FirstPort[u] # port  BY <1>4, <3>1, OnePort
    <3> SUFFICES ASSUME NEW u \in TargetGroups, FirstPort[u] \in DOMAIN kernel'
                 PROVE  Has(actual'.spec, u) /\ DOMAIN kernel'[FirstPort[u]] \subseteq EndpointsOf(actual', u)
      BY <2>10 DEF Noted
    <3>4. FirstPort[u] \in DOMAIN kernel  BY <2>4
    <3>5. Has(actual'.spec, u) /\ DOMAIN kernel[FirstPort[u]] \subseteq EndpointsOf(actual, u)
      BY <2>7, <3>2, <3>4 DEF Noted
    <3>6. CASE u = tg
      <4>1. EndpointsOf(actual', u) = DOMAIN noted.eps  BY <2>8, <3>6 DEF EndpointsOf, Has
      <4>2. DOMAIN kernel'[FirstPort[u]] = DOMAIN kernel[port] \cup DOMAIN add  BY <2>4, <3>3, <3>4, <3>6
      <4>3. DOMAIN kernel[port] \subseteq DOMAIN noted.eps  BY <2>5, <3>1, <3>3, <3>4, <3>6
      <4> QED  BY <2>3, <3>5, <4>1, <4>2, <4>3
    <3>7. CASE u # tg
      <4>1. EndpointsOf(actual', u) = EndpointsOf(actual, u)  BY <2>8, <3>7 DEF EndpointsOf, Has
      <4>2. kernel'[FirstPort[u]] = kernel[FirstPort[u]]  BY <2>4, <3>3, <3>4, <3>7
      <4> QED  BY <3>5, <4>1, <4>2
    <3> QED  BY <3>6, <3>7
  <2> QED  BY <1>2, <2>9, <2>10, <2>11, <2>12, WorkMoves
<1> QED  BY <1>6, <1>7, <1>8 DEF AddEndpoints

-----------------------------------------------------------------------------
LEMMA WorkNext ==
  ASSUME SchedulerInv, ReconcilerInv, [Next]_vars
  PROVE  WorkInv'
<1>1. CpInv /\ FaultsInv /\ WorkInv  BY DEF SchedulerInv, ReconcilerInv
<1>2. ASSUME UNCHANGED <<actual, kernel, known, worker>> PROVE WorkInv'  BY <1>1, <1>2, WorkKept
<1>3. CASE \E tg \in TargetGroups : Change(tg) \/ ForceReconcile(tg) \/ TakeTask(tg)
  BY <1>2, <1>3 DEF Change, ForceReconcile, TakeTask, vppVars, workerVars
<1>4. CASE \E tg \in TargetGroups, up \in HealthyEndpoints : StatusesChange(tg, up)
  BY <1>2, <1>4 DEF StatusesChange, vppVars, workerVars
<1>5. CASE \E tgs \in SUBSET TargetGroups : ChangePlacement(tgs)
  BY <1>2, <1>5 DEF ChangePlacement, vppVars, workerVars
<1>6. CASE Scheduling
  BY <1>2, <1>6 DEF Scheduling, Poll, UpdateTargetGroups, AddNewTargetGroups, RemoveTargetGroups,
                    SavePlacementVersion, MakeReconcileEvent, vppVars, workerVars
<1>7. CASE Working
  BY <1>7, TakeStep, SpecStep, ReadStep, RemoveEndpointsStep, AddEndpointsStep, RemoveTgEndpointsStep, RemoveSpecStep
     DEF Working
<1>8. CASE Crash
  <2>1. ~Clean(faults')  BY <1>1, <1>8, FaultStep DEF Crash
  <2> QED  BY <1>1, <1>8, <2>1, RebootWork DEF Crash
<1>9. CASE UNCHANGED vars  BY <1>2, <1>9 DEF vars, vppVars, workerVars
<1> QED  BY <1>3, <1>4, <1>5, <1>6, <1>7, <1>8, <1>9 DEF Next

LEMMA ReconcilerInit == Init => ReconcilerInv
<1> SUFFICES ASSUME Init PROVE ReconcilerInv
  OBVIOUS
<1>1. TasksInv
  <2>1. tasks \in Seq(SUBSET TargetGroups) /\ Len(tasks) = 0  BY DEF Init
  <2> QED  BY <2>1, AgentAssumption DEF TasksInv
<1>2. QueueOK(queue)  BY DEF Init, QueueOK
<1>3. FaultsInv  BY DEF Init, FaultsInv
<1>4. /\ actual.spec = Empty /\ actual.eps = Empty /\ actual = [spec |-> actual.spec, eps |-> actual.eps]
      /\ known = Empty /\ kernel = Empty /\ worker = IdleWorker
  BY DEF Init
<1>5. ActualOK(cp, actual, known)  BY <1>4, EmptyDomain DEF ActualOK
<1>6. KernelPorts /\ KernelInv  BY <1>4, EmptyDomain DEF KernelPorts, KernelInv, Noted
<1>7. WorkerOK(cp, actual, worker)  BY <1>4, IdleWorkerOK
<1> QED  BY <1>1, <1>2, <1>3, <1>5, <1>6, <1>7 DEF ReconcilerInv, WorkInv

LEMMA AgentInvariant == Spec => [](SchedulerInv /\ ReconcilerInv)
<1>1. Init => SchedulerInv /\ ReconcilerInv  BY SchedulerInit, ReconcilerInit
<1>2. SchedulerInv /\ ReconcilerInv /\ [Next]_vars => SchedulerInv' /\ ReconcilerInv'
  <2> SUFFICES ASSUME SchedulerInv, ReconcilerInv, [Next]_vars PROVE SchedulerInv' /\ ReconcilerInv'
    OBVIOUS
  <2>1. SchedulerInv'  BY SchedulerNext
  <2>2. TasksInv'  BY TasksNext DEF ReconcilerInv
  <2>3. QueueOK(queue')  BY QueueNext DEF ReconcilerInv
  <2>4. QueueOK(queue)'  BY <2>3
  <2>5. FaultsInv'  BY FaultsNext DEF ReconcilerInv
  <2>6. WorkInv'  BY WorkNext
  <2> QED  BY <2>1, <2>2, <2>4, <2>5, <2>6 DEF ReconcilerInv
<1> QED  BY <1>1, <1>2, PTL DEF Spec

(* What is stored is of target groups of the node and never of a placement *)
(* that was not answered, the endpoints of a target group are stored after *)
(* its spec, and the worker notes endpoints after the spec they belong to; *)
(* the channel of tasks and the queue of the worker stay within capacity.  *)
THEOREM AgentTypes == Spec => []TypeOK
<1>1. SchedulerInv /\ ReconcilerInv => TypeOK
  <2> SUFFICES ASSUME SchedulerInv, ReconcilerInv PROVE TypeOK
    OBVIOUS
  <2>1. CpInv /\ StoredOK(cp, stored) /\ HealthInv /\ TasksInv /\ QueueOK(queue) /\ ActualOK(cp, actual, known) /\ KernelPorts
    BY DEF SchedulerInv, ReconcilerInv, WorkInv
  <2>2. stored.version \in 0 .. Len(cp.placements)  BY <2>1, Placements DEF StoredOK
  <2>3. Len(queue) <= 1
    <3>1. CASE queue = <<>>  BY <3>1
    <3>2. CASE \E task : queue = <<task>>  BY <3>2
    <3> QED  BY <2>1, <3>1, <3>2 DEF QueueOK
  <2> QED  BY <2>1, <2>2, <2>3 DEF TypeOK, StoredOK, HealthInv, TasksInv, ActualOK, KernelPorts
<1> QED  BY <1>1, AgentInvariant, PTL

(* An agent that reports the latest placement's version has stored exactly *)
(* the target groups of that placement, although a write may fail and the  *)
(* process may die between any two of them (reconciler.go:98-132).         *)
THEOREM PlacementIsStored == Spec => []PlacementStored
<1>1. SchedulerInv => PlacementStored  BY DEF SchedulerInv
<1> QED  BY <1>1, AgentInvariant, PTL

(* Between two tasks the worker has noted every service and destination    *)
(* that is in the kernel, until the process dies, a batch fails half-way   *)
(* or the port of a target group changes (worker.go:159-301).              *)
THEOREM NothingIsForgotten == Spec => []NothingForgotten
<1>1. SchedulerInv /\ ReconcilerInv => NothingForgotten
  <2> SUFFICES ASSUME ReconcilerInv, Undisturbed, NEW tg \in TargetGroups, FirstPort[tg] \in DOMAIN kernel
               PROVE  Has(actual.spec, tg) /\ DOMAIN kernel[FirstPort[tg]] \subseteq DOMAIN ActualEndpoints(tg)
    BY DEF NothingForgotten
  <2>1. Noted(actual, kernel, worker)  BY DEF ReconcilerInv, WorkInv, KernelInv
  <2> QED  BY <2>1, NotedEndpoints DEF Noted
<1> QED  BY <1>1, AgentInvariant, PTL

-----------------------------------------------------------------------------
(* The changelogs.  What is stored of one is what the entries up to its    *)
(* version lead to, a change to be applied continues at the version that   *)
(* is stored of its target group, and no two changes are of one target     *)
(* group; an addition has the changelog from its beginning.                *)
Entries == Events \cup {[ep |-> CHOOSE e \in Endpoints : TRUE, w |-> 1]}

LogsOK(c) == c.log \in [TargetGroups -> Seq(Entries)]

StoredLog(c, st) ==
    \A tg \in DOMAIN st.eps :
        /\ st.eps[tg].ver \in Nat /\ st.eps[tg].ver <= Len(c.log[tg])
        /\ st.eps[tg].eps = ConstructEndpoints(Empty, SubSeq(c.log[tg], 1, st.eps[tg].ver))

VersionIn(st, tg) == IF Has(st.eps, tg) THEN st.eps[tg].ver ELSE 0

PartFrom(c, ch, from) ==
    /\ ch.tg \in TargetGroups /\ ch.ver \in Nat /\ ch.ver <= Len(c.log[ch.tg])
    /\ ch.log = SubSeq(c.log[ch.tg], from + 1, ch.ver)

Continues(c, st, ch) == PartFrom(c, ch, VersionIn(st, ch.tg))

JobLogs(c, st, s) ==
    /\ \A ch \in s.update : Continues(c, st, ch)
    /\ \A a, b \in s.update : a.tg = b.tg => a = b
    /\ \A ch \in s.add : PartFrom(c, ch, 0)

CurrentLog(c, st, s) ==
    s.cur # <<>> =>
        /\ s.pc = "update" => /\ Continues(c, st, s.cur[1])
                              /\ \A ch \in s.update : ch.tg # s.cur[1].tg
        /\ s.pc = "add" => PartFrom(c, s.cur[1], 0)

SchedLogs(c, st, s) == s.pc \in Jobs => JobLogs(c, st, s) /\ CurrentLog(c, st, s)

ChangelogInv == LogsOK(cp) /\ StoredLog(cp, stored) /\ SchedLogs(cp, stored, sched)

(* Induction over the natural numbers, for a set.                          *)
LEMMA SetInduction ==
  ASSUME NEW T \in SUBSET Nat, 0 \in T, \A n \in T : n + 1 \in T
  PROVE  T = Nat
<1> SUFFICES ASSUME Nat \ T # {} PROVE FALSE
  OBVIOUS
<1> DEFINE R == OpToRel(<, Nat)
           U == Nat \ T
<1>1. IsWellFoundedOn(R, Nat)  BY NatLessThanWellFounded
<1>2. U \subseteq Nat /\ U # {}  OBVIOUS
<1> HIDE DEF R
<1>3. PICK x \in U : \A y \in U : ~(<<y, x>> \in R)  BY <1>1, <1>2, WFMin
<1>4. x # 0 /\ x \in Nat /\ x \notin T  OBVIOUS
<1>5. x - 1 \in Nat /\ (x - 1) + 1 = x /\ x - 1 < x  BY <1>4
<1>6. x - 1 \in U  BY <1>4, <1>5
<1>7. <<x - 1, x>> \in R  BY <1>4, <1>5 DEF R, OpToRel
<1> QED  BY <1>3, <1>6, <1>7

(* r holds what the loop over n entries has after each of them.            *)
Loop(r, eps, log, n) ==
    r = [i \in 0 .. n |-> IF i = 0 THEN eps ELSE ApplyEvent(r[i - 1], log[i])]

LEMMA LoopValues ==
  ASSUME NEW r, NEW eps, NEW log, NEW n \in Nat, Loop(r, eps, log, n)
  PROVE  /\ r[0] = eps
         /\ \A i \in 0 .. n - 1 : r[i + 1] = ApplyEvent(r[i], log[i + 1])
<1>1. 0 \in 0 .. n  OBVIOUS
<1>2. r[0] = eps  BY <1>1 DEF Loop
<1>3. ASSUME NEW i \in 0 .. n - 1 PROVE r[i + 1] = ApplyEvent(r[i], log[i + 1])
  <2>1. i + 1 \in 0 .. n /\ i + 1 # 0 /\ (i + 1) - 1 = i  OBVIOUS
  <2>2. r[i + 1] = ApplyEvent(r[(i + 1) - 1], log[i + 1])  BY <2>1 DEF Loop
  <2> QED  BY <2>1, <2>2
<1> QED  BY <1>2, <1>3

LEMMA LoopExists ==
  ASSUME NEW eps, NEW log, NEW n \in Nat
  PROVE  \E r : Loop(r, eps, log, n)
<1> DEFINE T == {k \in Nat : \E r : Loop(r, eps, log, k)}
<1>1. 0 \in T
  <2> DEFINE r == [i \in 0 .. 0 |-> eps]
  <2>1. r = [i \in 0 .. 0 |-> IF i = 0 THEN eps ELSE ApplyEvent(r[i - 1], log[i])]  OBVIOUS
  <2>2. Loop(r, eps, log, 0)  BY <2>1 DEF Loop
  <2> QED  BY <2>2
<1>2. ASSUME NEW k \in T PROVE k + 1 \in T
  <2>1. PICK r : Loop(r, eps, log, k)  OBVIOUS
  <2> DEFINE s == [i \in 0 .. k + 1 |-> IF i = k + 1 THEN ApplyEvent(r[k], log[k + 1]) ELSE r[i]]
  <2>2. k \in Nat  OBVIOUS
  <2>3. \A i \in 0 .. k : s[i] = r[i]  BY <2>2
  <2>4. s[k + 1] = ApplyEvent(r[k], log[k + 1])  BY <2>2
  <2>5. \A i \in 0 .. k + 1 : s[i] = IF i = 0 THEN eps ELSE ApplyEvent(s[i - 1], log[i])
    <3> SUFFICES ASSUME NEW i \in 0 .. k + 1
                 PROVE  s[i] = IF i = 0 THEN eps ELSE ApplyEvent(s[i - 1], log[i])
      OBVIOUS
    <3> HIDE DEF s, T
    <3>1. CASE i = k + 1
      <4>1. i # 0 /\ i - 1 = k /\ k \in 0 .. k  BY <2>2, <3>1
      <4> QED  BY <2>3, <2>4, <3>1, <4>1
    <3>2. CASE i # k + 1 /\ i # 0
      <4>1. i \in 0 .. k /\ i - 1 \in 0 .. k  BY <2>2, <3>2
      <4>2. r[i] = ApplyEvent(r[i - 1], log[i])  BY <2>1, <3>2, <4>1 DEF Loop
      <4> QED  BY <2>3, <3>2, <4>1, <4>2
    <3>3. CASE i = 0
      <4>1. 0 \in 0 .. k  BY <2>2
      <4>2. r[0] = eps  BY <2>1, <4>1 DEF Loop
      <4> QED  BY <2>3, <3>3, <4>1, <4>2
    <3> QED  BY <3>1, <3>2, <3>3
  <2>6. s = [i \in 0 .. k + 1 |-> IF i = 0 THEN eps ELSE ApplyEvent(s[i - 1], log[i])]  BY <2>5
  <2>7. Loop(s, eps, log, k + 1)  BY <2>6 DEF Loop
  <2> QED  BY <2>2, <2>7
<1> HIDE DEF T
<1>3. T = Nat
  <2>1. T \in SUBSET Nat  BY DEF T
  <2> QED  BY <1>1, <1>2, <2>1, SetInduction
<1> QED  BY <1>3 DEF T

LEMMA ConstructIsLoop ==
  ASSUME NEW eps, NEW log, Len(log) \in Nat
  PROVE  \E r : Loop(r, eps, log, Len(log)) /\ ConstructEndpoints(eps, log) = r[Len(log)]
<1> DEFINE f == CHOOSE r : r = [i \in 0 .. Len(log) |-> IF i = 0 THEN eps ELSE ApplyEvent(r[i - 1], log[i])]
<1>1. PICK r : Loop(r, eps, log, Len(log))  BY LoopExists
<1>2. r = [i \in 0 .. Len(log) |-> IF i = 0 THEN eps ELSE ApplyEvent(r[i - 1], log[i])]
  BY <1>1 DEF Loop
<1>3. f = [i \in 0 .. Len(log) |-> IF i = 0 THEN eps ELSE ApplyEvent(f[i - 1], log[i])]
  BY <1>2
<1>4. ConstructEndpoints(eps, log) = f[Len(log)]  BY DEF ConstructEndpoints
<1> HIDE DEF f
<1>5. Loop(f, eps, log, Len(log))  BY <1>3 DEF Loop
<1> QED  BY <1>4, <1>5

(* The endpoints of a changelog are those that its later part makes of the *)
(* endpoints of its earlier part, however it is cut.                       *)
LEMMA ConstructContinues ==
  ASSUME NEW X, NEW log \in Seq(X), NEW eps, NEW k \in Nat, NEW n \in Nat, k <= n, n <= Len(log)
  PROVE  ConstructEndpoints(ConstructEndpoints(eps, SubSeq(log, 1, k)), SubSeq(log, k + 1, n))
           = ConstructEndpoints(eps, SubSeq(log, 1, n))
<1> DEFINE A == SubSeq(log, 1, k)
           B == SubSeq(log, k + 1, n)
           C == SubSeq(log, 1, n)
<1>1. /\ Len(A) = k /\ Len(B) = n - k /\ Len(C) = n
      /\ \A i \in 1 .. k : A[i] = log[i]
      /\ \A i \in 1 .. n - k : B[i] = log[k + i]
      /\ \A i \in 1 .. n : C[i] = log[i]
  OBVIOUS
<1> HIDE DEF A, B, C
<1> DEFINE mid == ConstructEndpoints(eps, A)
<1> HIDE DEF mid
<1>2. PICK r : Loop(r, eps, A, k) /\ mid = r[k]  BY <1>1, ConstructIsLoop DEF mid
<1>3. n - k \in Nat  OBVIOUS
<1>4. PICK s : Loop(s, mid, B, n - k) /\ ConstructEndpoints(mid, B) = s[n - k]
  <2>1. Len(B) = n - k /\ Len(B) \in Nat  BY <1>1, <1>3
  <2>2. \E s : Loop(s, mid, B, Len(B)) /\ ConstructEndpoints(mid, B) = s[Len(B)]  BY <2>1, ConstructIsLoop
  <2> QED  BY <2>1, <2>2
<1>5. PICK t : Loop(t, eps, C, n) /\ ConstructEndpoints(eps, C) = t[n]
  <2>1. Len(C) = n  BY <1>1
  <2>2. \E t : Loop(t, eps, C, Len(C)) /\ ConstructEndpoints(eps, C) = t[Len(C)]  BY <2>1, ConstructIsLoop
  <2> QED  BY <2>1, <2>2
<1>6. /\ r[0] = eps /\ \A i \in 0 .. k - 1 : r[i + 1] = ApplyEvent(r[i], A[i + 1])
      /\ s[0] = mid /\ \A i \in 0 .. (n - k) - 1 : s[i + 1] = ApplyEvent(s[i], B[i + 1])
      /\ t[0] = eps /\ \A i \in 0 .. n - 1 : t[i + 1] = ApplyEvent(t[i], C[i + 1])
  BY <1>2, <1>3, <1>4, <1>5, LoopValues
<1> DEFINE T == {i \in Nat : /\ i <= k => t[i] = r[i]
                             /\ (k <= i /\ i <= n) => t[i] = s[i - k]}
<1>7. 0 \in T
  <2>1. k = 0 => r[0] = s[0] /\ 0 - k = 0  BY <1>2, <1>6
  <2> QED  BY <1>6, <2>1
<1>8. ASSUME NEW i \in T PROVE i + 1 \in T
  <2>0. i \in Nat  OBVIOUS
  <2>1. ASSUME i + 1 <= k PROVE t[i + 1] = r[i + 1]
    <3>1. i \in 0 .. k - 1 /\ i \in 0 .. n - 1 /\ i + 1 \in 1 .. k /\ i + 1 \in 1 .. n /\ i <= k  BY <2>0, <2>1
    <3>2. t[i] = r[i]  BY <3>1
    <3>3. A[i + 1] = C[i + 1]  BY <1>1, <3>1
    <3>4. t[i + 1] = ApplyEvent(t[i], C[i + 1]) /\ r[i + 1] = ApplyEvent(r[i], A[i + 1])  BY <1>6, <3>1
    <3> QED  BY <3>2, <3>3, <3>4
  <2>2. ASSUME k <= i, i + 1 <= n PROVE t[i + 1] = s[(i + 1) - k]
    <3>1. /\ i - k \in 0 .. (n - k) - 1 /\ i \in 0 .. n - 1 /\ (i - k) + 1 \in 1 .. n - k /\ i + 1 \in 1 .. n
          /\ i <= n /\ k + ((i - k) + 1) = i + 1 /\ (i + 1) - k = (i - k) + 1
      BY <2>0, <2>2
    <3>2. t[i] = s[i - k]  BY <2>2, <3>1
    <3>3. B[(i - k) + 1] = log[i + 1] /\ C[i + 1] = log[i + 1]
      <4>1. B[(i - k) + 1] = log[k + ((i - k) + 1)]  BY <1>1, <3>1
      <4> QED  BY <1>1, <3>1, <4>1
    <3>4. t[i + 1] = ApplyEvent(t[i], C[i + 1]) /\ s[(i - k) + 1] = ApplyEvent(s[i - k], B[(i - k) + 1])
      BY <1>6, <3>1
    <3> QED  BY <3>1, <3>2, <3>3, <3>4
  <2>3. ASSUME k = i + 1, i + 1 <= n PROVE t[i + 1] = s[(i + 1) - k]
    <3>1. t[i + 1] = r[i + 1]  BY <2>0, <2>1, <2>3
    <3>2. s[(i + 1) - k] = s[0] /\ s[0] = r[i + 1]
      <4>1. (i + 1) - k = 0  BY <2>0, <2>3
      <4> QED  BY <1>2, <1>6, <2>3, <4>1
    <3> QED  BY <3>1, <3>2
  <2>4. (k <= i + 1 /\ i + 1 <= n) => t[i + 1] = s[(i + 1) - k]
    <3>1. k <= i + 1 => k <= i \/ k = i + 1  BY <2>0
    <3> QED  BY <2>2, <2>3, <3>1
  <2>5. i + 1 \in Nat  BY <2>0
  <2> QED  BY <2>1, <2>4, <2>5
<1> HIDE DEF T
<1>9. T = Nat
  <2>1. T \in SUBSET Nat  BY DEF T
  <2> QED  BY <1>7, <1>8, <2>1, SetInduction
<1>10. t[n] = s[n - k]
  <2>1. n \in T  BY <1>9
  <2> QED  BY <2>1 DEF T
<1> QED  BY <1>4, <1>5, <1>10 DEF A, B, C, mid

LEMMA ConstructNothing ==
  ASSUME NEW eps, NEW log, Len(log) = 0
  PROVE  ConstructEndpoints(eps, log) = eps
<1>1. PICK r : Loop(r, eps, log, 0) /\ ConstructEndpoints(eps, log) = r[0]  BY ConstructIsLoop
<1> QED  BY <1>1, LoopValues

(* The control plane only appends to a changelog.                          *)
LogsGrow(c, d) ==
    \A tg \in TargetGroups :
        /\ Len(c.log[tg]) <= Len(d.log[tg])
        /\ \A i \in 1 .. Len(c.log[tg]) : d.log[tg][i] = c.log[tg][i]

LEMMA LogsNext ==
  ASSUME CpInv, LogsOK(cp), [Next]_vars
  PROVE  LogsOK(cp') /\ LogsGrow(cp, cp')
<1>0. /\ cp = [placements |-> cp.placements, specs |-> cp.specs, log |-> cp.log, changes |-> cp.changes]
      /\ cp.log \in [TargetGroups -> Seq(Entries)]
      /\ \A tg \in TargetGroups : cp.log[tg] \in Seq(Entries) /\ Len(cp.log[tg]) \in Nat
  BY DEF CpInv, LogsOK
<1>1. ASSUME cp'.log = cp.log PROVE LogsOK(cp') /\ LogsGrow(cp, cp')
  BY <1>0, <1>1 DEF LogsOK, LogsGrow
<1>2. ASSUME NEW tg \in TargetGroups, Change(tg) PROVE LogsOK(cp') /\ LogsGrow(cp, cp')
  <2>1. CASE \E p \in Ports : cp' = [cp EXCEPT !.specs[tg] = Append(@, p), !.changes = @ + 1]
    <3>1. cp'.log = cp.log  BY <1>0, <2>1
    <3> QED  BY <1>1, <3>1
  <2>2. CASE \E e \in Events : cp' = [cp EXCEPT !.log[tg] = Append(@, e), !.changes = @ + 1]
    <3>1. PICK e \in Events : cp' = [cp EXCEPT !.log[tg] = Append(@, e), !.changes = @ + 1]  BY <2>2
    <3>2. cp'.log = [cp.log EXCEPT ![tg] = Append(cp.log[tg], e)]  BY <1>0, <3>1
    <3>3. e \in Entries  BY DEF Entries
    <3>4. /\ Append(cp.log[tg], e) \in Seq(Entries) /\ Len(Append(cp.log[tg], e)) = Len(cp.log[tg]) + 1
          /\ \A i \in 1 .. Len(cp.log[tg]) : Append(cp.log[tg], e)[i] = cp.log[tg][i]
      BY <1>0, <3>3, AppendRange
    <3>5. /\ cp'.log \in [TargetGroups -> Seq(Entries)] /\ cp'.log[tg] = Append(cp.log[tg], e)
          /\ \A u \in TargetGroups : u # tg => cp'.log[u] = cp.log[u]
      BY <1>0, <3>2, <3>4
    <3>6. ASSUME NEW u \in TargetGroups
          PROVE  /\ Len(cp.log[u]) <= Len(cp'.log[u])
                 /\ \A i \in 1 .. Len(cp.log[u]) : cp'.log[u][i] = cp.log[u][i]
      <4>1. CASE u = tg
        <5>1. Len(cp.log[tg]) \in Nat  BY <1>0
        <5>2. Len(cp.log[tg]) <= Len(Append(cp.log[tg], e))  BY <3>4, <5>1
        <5> QED  BY <3>4, <3>5, <4>1, <5>2
      <4>2. CASE u # tg
        <5>1. Len(cp.log[u]) \in Nat /\ cp'.log[u] = cp.log[u]  BY <1>0, <3>5, <4>2
        <5> QED  BY <5>1
      <4> QED  BY <4>1, <4>2
    <3>7. LogsGrow(cp, cp')  BY <3>6 DEF LogsGrow
    <3> QED  BY <3>5, <3>7 DEF LogsOK
  <2> QED  BY <1>2, <2>1, <2>2 DEF Change
<1>3. ASSUME NEW tgs \in SUBSET TargetGroups, ChangePlacement(tgs) PROVE LogsOK(cp') /\ LogsGrow(cp, cp')
  <2>1. cp' = [cp EXCEPT !.placements = Append(cp.placements, tgs)]  BY <1>3 DEF ChangePlacement
  <2>2. cp'.log = cp.log  BY <1>0, <2>1
  <2> QED  BY <1>1, <2>2
<1>4. CASE \E tg \in TargetGroups : ForceReconcile(tg) \/ TakeTask(tg)
  BY <1>1, <1>4 DEF ForceReconcile, TakeTask
<1>5. CASE \E tg \in TargetGroups, up \in HealthyEndpoints : StatusesChange(tg, up)
  BY <1>1, <1>5 DEF StatusesChange
<1>6. CASE Scheduling
  BY <1>1, <1>6 DEF Scheduling, Poll, UpdateTargetGroups, AddNewTargetGroups, RemoveTargetGroups,
                    SavePlacementVersion, MakeReconcileEvent
<1>7. CASE Working
  BY <1>1, <1>7 DEF Working, Take, ReconcileSpec, ReadVersions, RemoveEndpoints, AddEndpoints, RemoveTgEndpoints,
                    RemoveSpec, Reboot
<1>8. CASE Crash \/ UNCHANGED vars  BY <1>1, <1>8 DEF Crash, Reboot, vars
<1> QED  BY <1>2, <1>3, <1>4, <1>5, <1>6, <1>7, <1>8 DEF Next

LEMMA SamePart ==
  ASSUME NEW X, NEW s \in Seq(X), NEW t \in Seq(X), Len(s) <= Len(t), \A i \in 1 .. Len(s) : t[i] = s[i],
         NEW m \in Nat, NEW n \in Nat, n <= Len(s)
  PROVE  SubSeq(t, m + 1, n) = SubSeq(s, m + 1, n)
<1> DEFINE A == SubSeq(s, m + 1, n)
           B == SubSeq(t, m + 1, n)
<1>1. A = [i \in 1 .. n - m |-> s[m + i]] /\ B = [i \in 1 .. n - m |-> t[m + i]]  OBVIOUS
<1>2. \A i \in 1 .. n - m : m + i \in 1 .. Len(s)  OBVIOUS
<1>3. \A i \in 1 .. n - m : t[m + i] = s[m + i]  BY <1>2
<1> QED  BY <1>1, <1>3

LEMMA PartGrows ==
  ASSUME NEW c, NEW d, LogsOK(c), LogsOK(d), LogsGrow(c, d), NEW ch, NEW from \in Nat, PartFrom(c, ch, from)
  PROVE  PartFrom(d, ch, from)
<1> DEFINE s == c.log[ch.tg]
           t == d.log[ch.tg]
<1>1. s \in Seq(Entries) /\ t \in Seq(Entries) /\ Len(s) \in Nat /\ Len(t) \in Nat
  BY DEF LogsOK, PartFrom
<1>2. Len(s) <= Len(t) /\ \A i \in 1 .. Len(s) : t[i] = s[i]  BY DEF LogsGrow, PartFrom
<1>3. ch.ver \in Nat /\ ch.ver <= Len(s) /\ ch.log = SubSeq(s, from + 1, ch.ver) /\ ch.tg \in TargetGroups
  BY DEF PartFrom
<1> HIDE DEF s, t
<1>4. SubSeq(t, from + 1, ch.ver) = SubSeq(s, from + 1, ch.ver)  BY <1>1, <1>2, <1>3, SamePart
<1>5. ch.ver <= Len(t)  BY <1>1, <1>2, <1>3
<1> QED  BY <1>3, <1>4, <1>5 DEF PartFrom, t

LEMMA VersionNatural ==
  ASSUME NEW c, NEW st, StoredLog(c, st), NEW tg
  PROVE  VersionIn(st, tg) \in Nat
  BY DEF StoredLog, VersionIn, Has

LEMMA LogsKept ==
  ASSUME NEW c, NEW d, LogsOK(c), LogsOK(d), LogsGrow(c, d), NEW st, DOMAIN st.eps \subseteq TargetGroups,
         NEW s, StoredLog(c, st), SchedLogs(c, st, s)
  PROVE  StoredLog(d, st) /\ SchedLogs(d, st, s)
<1>1. StoredLog(d, st)
  <2> SUFFICES ASSUME NEW tg \in DOMAIN st.eps
               PROVE  /\ st.eps[tg].ver \in Nat /\ st.eps[tg].ver <= Len(d.log[tg])
                      /\ st.eps[tg].eps = ConstructEndpoints(Empty, SubSeq(d.log[tg], 1, st.eps[tg].ver))
    BY DEF StoredLog
  <2> DEFINE v == st.eps[tg].ver
  <2>1. /\ v \in Nat /\ v <= Len(c.log[tg])
        /\ st.eps[tg].eps = ConstructEndpoints(Empty, SubSeq(c.log[tg], 1, v)) /\ tg \in TargetGroups
    BY DEF StoredLog
  <2>2. /\ c.log[tg] \in Seq(Entries) /\ d.log[tg] \in Seq(Entries) /\ Len(c.log[tg]) <= Len(d.log[tg])
        /\ \A i \in 1 .. Len(c.log[tg]) : d.log[tg][i] = c.log[tg][i]
        /\ Len(c.log[tg]) \in Nat /\ Len(d.log[tg]) \in Nat
    BY <2>1 DEF LogsOK, LogsGrow
  <2> HIDE DEF v
  <2>3. SubSeq(d.log[tg], 0 + 1, v) = SubSeq(c.log[tg], 0 + 1, v)  BY <2>1, <2>2, SamePart
  <2>4. SubSeq(d.log[tg], 1, v) = SubSeq(c.log[tg], 1, v)
    <3>1. 0 + 1 = 1  OBVIOUS
    <3> QED  BY <2>3, <3>1, Zenon
  <2>5. v <= Len(d.log[tg])  BY <2>1, <2>2
  <2> QED  BY <2>1, <2>4, <2>5 DEF v
<1>2. \A ch : Continues(c, st, ch) => Continues(d, st, ch)  BY VersionNatural, PartGrows DEF Continues
<1>3. \A ch : PartFrom(c, ch, 0) => PartFrom(d, ch, 0)  BY PartGrows
<1>4. ASSUME s.pc \in Jobs PROVE JobLogs(d, st, s) /\ CurrentLog(d, st, s)
  BY <1>2, <1>3, <1>4 DEF SchedLogs, JobLogs, CurrentLog
<1> QED  BY <1>1, <1>4 DEF SchedLogs

-----------------------------------------------------------------------------
(* What a write of endpoints leaves.                                       *)
LEMMA EndpointsFollow ==
  ASSUME StoredOK(cp, stored), StoredLog(cp, stored), NEW ch, ch.ver \in Nat, ch.ver <= Len(cp.log[ch.tg]), NEW eps,
         (Has(stored.eps, ch.tg) => stored.eps[ch.tg].ver < ch.ver)
            => eps = ConstructEndpoints(Empty, SubSeq(cp.log[ch.tg], 1, ch.ver))
  PROVE  /\ StoredLog(cp, SetDesiredEndpoints(ch, eps))
         /\ \A tg : tg # ch.tg => VersionIn(SetDesiredEndpoints(ch, eps), tg) = VersionIn(stored, tg)
<1> DEFINE n == SetDesiredEndpoints(ch, eps)
           v == [ver |-> ch.ver, eps |-> eps]
<1> SUFFICES StoredLog(cp, n) /\ \A tg : tg # ch.tg => VersionIn(n, tg) = VersionIn(stored, tg)
  OBVIOUS
<1>1. CASE n = stored  BY <1>1
<1>2. CASE /\ ~(Has(stored.eps, ch.tg) /\ stored.eps[ch.tg].ver >= ch.ver)
           /\ n = [stored EXCEPT !.eps = Put(stored.eps, ch.tg, v)]
  <2>1. n.eps = Put(stored.eps, ch.tg, v)  BY <1>2 DEF StoredOK
  <2>2. Has(stored.eps, ch.tg) => stored.eps[ch.tg].ver < ch.ver  BY <1>2 DEF StoredLog, Has
  <2>3. v.ver = ch.ver /\ v.eps = ConstructEndpoints(Empty, SubSeq(cp.log[ch.tg], 1, ch.ver))  BY <2>2
  <2> HIDE DEF n, v
  <2>4. /\ DOMAIN n.eps = DOMAIN stored.eps \cup {ch.tg} /\ n.eps[ch.tg] = v
        /\ \A x \in DOMAIN stored.eps : x # ch.tg => n.eps[x] = stored.eps[x]
    <3>1. /\ DOMAIN Put(stored.eps, ch.tg, v) = DOMAIN stored.eps \cup {ch.tg} /\ Put(stored.eps, ch.tg, v)[ch.tg] = v
          /\ \A x \in DOMAIN stored.eps : x # ch.tg => Put(stored.eps, ch.tg, v)[x] = stored.eps[x]
      BY DEF Put
    <3> QED  BY <2>1, <3>1
  <2>5. StoredLog(cp, n)  BY <2>3, <2>4 DEF StoredLog
  <2> QED  BY <2>4, <2>5 DEF VersionIn, Has
<1> QED  BY <1>1, <1>2 DEF SetDesiredEndpoints

LEMMA UpdateFollows ==
  ASSUME LogsOK(cp), StoredLog(cp, stored), NEW ch, Continues(cp, stored, ch),
         Has(stored.eps, ch.tg) => stored.eps[ch.tg].ver < ch.ver
  PROVE  UpdatedEndpoints(ch) = ConstructEndpoints(Empty, SubSeq(cp.log[ch.tg], 1, ch.ver))
<1> DEFINE log == cp.log[ch.tg]
           k == VersionIn(stored, ch.tg)
           eps == IF Has(stored.eps, ch.tg) THEN stored.eps[ch.tg].eps ELSE Empty
<1>1. /\ k \in Nat /\ ch.ver \in Nat /\ ch.ver <= Len(log) /\ ch.log = SubSeq(log, k + 1, ch.ver)
      /\ log \in Seq(Entries)
  BY VersionNatural DEF Continues, PartFrom, LogsOK
<1>2. k <= ch.ver  BY <1>1 DEF VersionIn
<1>3. eps = ConstructEndpoints(Empty, SubSeq(log, 1, k))
  <2>1. CASE Has(stored.eps, ch.tg)  BY <2>1 DEF StoredLog, VersionIn, Has
  <2>2. CASE ~Has(stored.eps, ch.tg)
    <3>1. k = 0 /\ eps = Empty  BY <2>2 DEF VersionIn
    <3>2. Len(SubSeq(log, 1, 0)) = 0  BY <1>1
    <3> QED  BY <3>1, <3>2, ConstructNothing
  <2> QED  BY <2>1, <2>2
<1>4. UpdatedEndpoints(ch) = ConstructEndpoints(eps, ch.log)  BY DEF UpdatedEndpoints
<1> HIDE DEF log, k, eps
<1>5. ConstructEndpoints(ConstructEndpoints(Empty, SubSeq(log, 1, k)), SubSeq(log, k + 1, ch.ver))
        = ConstructEndpoints(Empty, SubSeq(log, 1, ch.ver))
  BY <1>1, <1>2, ConstructContinues
<1> QED  BY <1>1, <1>3, <1>4, <1>5 DEF log

LEMMA SameEndpoints ==
  ASSUME NEW c, NEW st, NEW n, n.eps = st.eps, StoredLog(c, st)
  PROVE  StoredLog(c, n) /\ \A tg : VersionIn(n, tg) = VersionIn(st, tg)
  BY DEF StoredLog, VersionIn, Has

LEMMA JobLogsKept ==
  ASSUME NEW c, NEW st, NEW s, NEW n, JobLogs(c, st, s), \A ch \in s.update : VersionIn(n, ch.tg) = VersionIn(st, ch.tg)
  PROVE  JobLogs(c, n, s)
  BY DEF JobLogs, Continues

LEMMA LogsMove ==
  ASSUME LogsOK(cp), UNCHANGED cp, StoredLog(cp, stored'), SchedLogs(cp, stored', sched')
  PROVE  ChangelogInv'
<1>1. LogsOK(cp') /\ StoredLog(cp', stored') /\ SchedLogs(cp', stored', sched')  OBVIOUS
<1>2. LogsOK(cp)' /\ StoredLog(cp, stored)' /\ SchedLogs(cp, stored, sched)'  BY <1>1
<1> QED  BY <1>2 DEF ChangelogInv

LEMMA IdleLogs ==
  ASSUME NEW c, NEW st
  PROVE  SchedLogs(c, st, IdleSched)
  BY DEF SchedLogs, IdleSched, Jobs

LEMMA StageLogs ==
  ASSUME NEW c, NEW st, NEW s, JobShape(s), s.cur = <<>>, JobLogs(c, st, s)
  PROVE  SchedLogs(c, st, Stage(s))
<1> DEFINE p == IF s.update # {} THEN "update" ELSE IF s.add # {} THEN "add"
                ELSE IF s.remove # {} THEN "remove" ELSE "save"
           n == Stage(s)
<1>1. n = [pc |-> p, cur |-> s.cur, update |-> s.update, add |-> s.add, remove |-> s.remove,
           version |-> s.version, send |-> s.send]
  BY DEF Stage, JobShape
<1>2. n.cur = <<>> /\ n.update = s.update /\ n.add = s.add  BY <1>1
<1> HIDE DEF n
<1>3. JobLogs(c, st, n) /\ CurrentLog(c, st, n)  BY <1>2 DEF JobLogs, CurrentLog
<1> QED  BY <1>3 DEF SchedLogs, n

-----------------------------------------------------------------------------
(* The changes of an answer continue what is stored.                       *)
LEMMA ChangePart ==
  ASSUME LogsOK(cp), NEW tg \in TargetGroups, NEW from, NEW specVer
  PROVE  /\ TargetGroupChange(tg, from, specVer).tg = tg
         /\ PartFrom(cp, TargetGroupChange(tg, from, specVer), from)
<1> DEFINE ch == TargetGroupChange(tg, from, specVer)
<1>1. /\ ch.tg = tg /\ ch.ver = Len(cp.log[tg])
      /\ ch.log = SubSeq(cp.log[tg], from + 1, Len(cp.log[tg]))
  BY DEF TargetGroupChange
<1>2. Len(cp.log[tg]) \in Nat /\ Len(cp.log[tg]) <= Len(cp.log[tg])  BY DEF LogsOK
<1> HIDE DEF ch
<1>3. PartFrom(cp, ch, from)  BY <1>1, <1>2 DEF PartFrom
<1> QED  BY <1>1, <1>3 DEF ch

LEMMA ReplyLogs ==
  ASSUME CpInv, StoredOK(cp, stored), LogsOK(cp)
  PROVE  JobLogs(cp, stored, Reply)
<1> DEFINE tgs == Last(cp.placements)
           held == DOMAIN stored.spec
           changes == {TargetGroupChange(tg, 0, 0) : tg \in tgs \ held}
           updates == {TargetGroupChange(tg, StoredVersion(tg), stored.spec[tg].ver) : tg \in held \cap tgs}
<1>1. Reply.update \subseteq updates /\ Reply.add \subseteq changes
  BY DEF Reply
<1>2. tgs \subseteq TargetGroups /\ held \subseteq TargetGroups  BY Placements DEF StoredOK
<1> HIDE DEF tgs, held
<1>3. \A ch \in changes : PartFrom(cp, ch, 0)
  <2> SUFFICES ASSUME NEW tg \in tgs \ held PROVE PartFrom(cp, TargetGroupChange(tg, 0, 0), 0)
    OBVIOUS
  <2> QED  BY <1>2, ChangePart
<1>4. ASSUME NEW ch \in updates
      PROVE  /\ ch = TargetGroupChange(ch.tg, StoredVersion(ch.tg), stored.spec[ch.tg].ver)
             /\ PartFrom(cp, ch, StoredVersion(ch.tg))
  <2>1. PICK tg \in held \cap tgs : ch = TargetGroupChange(tg, StoredVersion(tg), stored.spec[tg].ver)  OBVIOUS
  <2>2. ch.tg = tg /\ PartFrom(cp, ch, StoredVersion(tg))  BY <1>2, <2>1, ChangePart
  <2> QED  BY <2>1, <2>2
<1>5. \A tg : StoredVersion(tg) = VersionIn(stored, tg)  BY DEF StoredVersion, VersionIn
<1> HIDE DEF changes, updates
<1>6. \A ch \in Reply.update : Continues(cp, stored, ch)  BY <1>1, <1>4, <1>5 DEF Continues
<1>7. ASSUME NEW a \in Reply.update, NEW b \in Reply.update, a.tg = b.tg PROVE a = b
  <2>1. /\ a = TargetGroupChange(a.tg, StoredVersion(a.tg), stored.spec[a.tg].ver)
        /\ b = TargetGroupChange(b.tg, StoredVersion(b.tg), stored.spec[b.tg].ver)
    BY <1>1, <1>4
  <2> QED  BY <1>7, <2>1
<1>8. \A ch \in Reply.add : PartFrom(cp, ch, 0)  BY <1>1, <1>3
<1> QED  BY <1>6, <1>7, <1>8 DEF JobLogs

LEMMA StartedLogs ==
  ASSUME NEW r, JobLogs(cp, stored, r), StartUpdate(r)
  PROVE  SchedLogs(cp, stored, sched')
<1> DEFINE s == [pc |-> "start", cur |-> <<>>, update |-> r.update, add |-> r.add,
                 remove |-> r.remove, version |-> r.version, send |-> Send(r)]
<1>1. s.cur = <<>> /\ s.update = r.update /\ s.add = r.add /\ JobShape(s)  BY DEF JobShape
<1>2. sched' = Stage(s)  BY DEF StartUpdate
<1> HIDE DEF s
<1>3. JobLogs(cp, stored, s)  BY <1>1 DEF JobLogs
<1> QED  BY <1>1, <1>2, <1>3, StageLogs

LEMMA PollLogs ==
  ASSUME SchedulerInv, ChangelogInv, Poll
  PROVE  ChangelogInv'
<1>1. CpInv /\ StoredOK(cp, stored) /\ LogsOK(cp) /\ StoredLog(cp, stored)  BY DEF SchedulerInv, ChangelogInv
<1>2. UNCHANGED <<cp, stored>>  BY DEF Poll
<1>3. /\ Reply = [version |-> Reply.version, update |-> Reply.update, add |-> Reply.add, remove |-> Reply.remove]
      /\ \A ch \in Reply.add : ChangeShape(ch)
      /\ JobLogs(cp, stored, Reply)
  BY <1>1, ReplyLeads, ReplyLogs
<1>4. SchedLogs(cp, stored, sched')
  <2>1. CASE StartUpdate(Reply)  BY <1>3, <2>1, StartedLogs
  <2>2. ASSUME NEW c \in Reply.add, StartUpdate([Reply EXCEPT !.add = (@ \ {c}) \cup {[c EXCEPT !.spec = <<>>]}])
        PROVE  SchedLogs(cp, stored, sched')
    <3> DEFINE lost == [c EXCEPT !.spec = <<>>]
               r == Reply
               n == [r EXCEPT !.add = (r.add \ {c}) \cup {lost}]
    <3>1. StartUpdate(n)  BY <2>2
    <3>2. r = [version |-> r.version, update |-> r.update, add |-> r.add, remove |-> r.remove]
          /\ ChangeShape(c) /\ JobLogs(cp, stored, r) /\ c \in r.add
      BY <1>3, <2>2
    <3>3. lost = [tg |-> c.tg, spec |-> <<>>, specVer |-> c.specVer, log |-> c.log, ver |-> c.ver]
      BY <3>2 DEF ChangeShape
    <3>4. lost.tg = c.tg /\ lost.log = c.log /\ lost.ver = c.ver  BY <3>3
    <3> HIDE DEF r, lost
    <3>5. n = [version |-> r.version, update |-> r.update, add |-> (r.add \ {c}) \cup {lost}, remove |-> r.remove]
      BY <3>2
    <3>6. n.update = r.update /\ n.add = (r.add \ {c}) \cup {lost}  BY <3>5
    <3> HIDE DEF n
    <3>7. PartFrom(cp, c, 0)  BY <3>2 DEF JobLogs
    <3>8. PartFrom(cp, lost, 0)  BY <3>4, <3>7 DEF PartFrom
    <3>9. JobLogs(cp, stored, n)  BY <3>2, <3>6, <3>8 DEF JobLogs
    <3> QED  BY <3>1, <3>9, StartedLogs
  <2> QED  BY <2>1, <2>2 DEF Poll
<1>5. StoredLog(cp, stored') /\ SchedLogs(cp, stored', sched')  BY <1>1, <1>2, <1>4
<1> QED  BY <1>1, <1>2, <1>5, LogsMove

-----------------------------------------------------------------------------
(* The other steps of the scheduler.                                       *)
LEMMA SpecLeavesEndpoints ==
  ASSUME StoredOK(cp, stored), NEW ch
  PROVE  SetDesiredSpec(ch).eps = stored.eps
  BY DEF SetDesiredSpec, StoredOK

LEMMA CurrentLogs ==
  ASSUME SchedulerInv, ChangelogInv, sched.pc \in Jobs, NEW n, WriteOrFail(n), StoredLog(cp, n),
         \A ch \in sched.update : VersionIn(n, ch.tg) = VersionIn(stored, ch.tg),
         sched' = Stage([sched EXCEPT !.cur = <<>>]), UNCHANGED cp
  PROVE  ChangelogInv'
<1>1. LogsOK(cp) /\ StoredLog(cp, stored) /\ JobLogs(cp, stored, sched) /\ JobShape(sched)
  BY DEF SchedulerInv, ChangelogInv, SchedLogs, SchedOK, JobOK, JobBase
<1>2. StoredLog(cp, stored') /\ \A ch \in sched.update : VersionIn(stored', ch.tg) = VersionIn(stored, ch.tg)
  <2>1. CASE stored' = n  BY <2>1
  <2>2. CASE stored' = stored  BY <1>1, <2>2
  <2> QED  BY <2>1, <2>2 DEF WriteOrFail
<1> DEFINE s == [sched EXCEPT !.cur = <<>>]
<1>3. s = [pc |-> sched.pc, cur |-> <<>>, update |-> sched.update, add |-> sched.add, remove |-> sched.remove,
           version |-> sched.version, send |-> sched.send]
  BY <1>1 DEF JobShape
<1>4. s.cur = <<>> /\ s.update = sched.update /\ s.add = sched.add /\ JobShape(s)  BY <1>3 DEF JobShape
<1>5. sched' = Stage(s)  OBVIOUS
<1> HIDE DEF s
<1>6. JobLogs(cp, stored', sched)  BY <1>1, <1>2, JobLogsKept
<1>7. JobLogs(cp, stored', s)  BY <1>4, <1>6 DEF JobLogs
<1>8. SchedLogs(cp, stored', sched')  BY <1>4, <1>5, <1>7, StageLogs
<1> QED  BY <1>1, <1>2, <1>8, LogsMove

LEMMA UpdateLogs ==
  ASSUME SchedulerInv, ChangelogInv, UpdateTargetGroups
  PROVE  ChangelogInv'
<1>1. StoredOK(cp, stored) /\ LogsOK(cp) /\ StoredLog(cp, stored)  BY DEF SchedulerInv, ChangelogInv
<1>2. UNCHANGED cp /\ sched.pc = "update" /\ sched.pc \in Jobs  BY DEF UpdateTargetGroups, Jobs
<1>3. JobShape(sched) /\ JobLogs(cp, stored, sched) /\ CurrentLog(cp, stored, sched)
  BY <1>2 DEF SchedulerInv, ChangelogInv, SchedLogs, SchedOK, JobOK, JobBase
<1>4. CASE sched.cur # <<>>
  <2> DEFINE c == sched.cur[1]
             e == UpdatedEndpoints(c)
             n == IF c.log # <<>> THEN SetDesiredEndpoints(c, e) ELSE stored
  <2>1. Continues(cp, stored, c) /\ \A ch \in sched.update : ch.tg # c.tg  BY <1>2, <1>3, <1>4 DEF CurrentLog
  <2>2. WriteOrFail(n) /\ sched' = Stage([sched EXCEPT !.cur = <<>>])  BY <1>4 DEF UpdateTargetGroups
  <2> HIDE DEF c
  <2>3. c.ver \in Nat /\ c.ver <= Len(cp.log[c.tg])  BY <2>1 DEF Continues, PartFrom
  <2>4. (Has(stored.eps, c.tg) => stored.eps[c.tg].ver < c.ver)
          => e = ConstructEndpoints(Empty, SubSeq(cp.log[c.tg], 1, c.ver))
    BY <1>1, <2>1, UpdateFollows
  <2> HIDE DEF e
  <2>5. /\ StoredLog(cp, SetDesiredEndpoints(c, e))
        /\ \A tg : tg # c.tg => VersionIn(SetDesiredEndpoints(c, e), tg) = VersionIn(stored, tg)
    BY <1>1, <2>3, <2>4, EndpointsFollow
  <2>6. StoredLog(cp, n) /\ \A ch \in sched.update : VersionIn(n, ch.tg) = VersionIn(stored, ch.tg)
    BY <1>1, <2>1, <2>5
  <2> HIDE DEF n
  <2> QED  BY <1>2, <2>2, <2>6, CurrentLogs
<1>5. CASE sched.cur = <<>>
  <2>1. PICK c \in sched.update : /\ WriteOrFail(IF c.spec # <<>> THEN SetDesiredSpec(c) ELSE stored)
                                  /\ sched' = [sched EXCEPT !.cur = <<c>>, !.update = @ \ {c}]
    BY <1>5 DEF UpdateTargetGroups
  <2>2. stored'.eps = stored.eps  BY <1>1, <2>1, SpecLeavesEndpoints DEF WriteOrFail
  <2>3. StoredLog(cp, stored') /\ \A tg : VersionIn(stored', tg) = VersionIn(stored, tg)
    BY <1>1, <2>2, SameEndpoints
  <2>4. sched' = [pc |-> "update", cur |-> <<c>>, update |-> sched.update \ {c}, add |-> sched.add,
                  remove |-> sched.remove, version |-> sched.version, send |-> sched.send]
    BY <1>2, <1>3, <2>1 DEF JobShape
  <2>5. sched'.pc = "update" /\ sched'.cur[1] = c /\ sched'.update = sched.update \ {c} /\ sched'.add = sched.add
    BY <2>4
  <2>6. JobLogs(cp, stored', sched)  BY <1>3, <2>3, JobLogsKept
  <2>7. JobLogs(cp, stored', sched')  BY <2>5, <2>6 DEF JobLogs
  <2>8. CurrentLog(cp, stored', sched')  BY <2>5, <2>6 DEF CurrentLog, JobLogs
  <2>9. SchedLogs(cp, stored', sched')  BY <2>7, <2>8 DEF SchedLogs
  <2> QED  BY <1>1, <1>2, <2>3, <2>9, LogsMove
<1> QED  BY <1>4, <1>5

LEMMA AddLogs ==
  ASSUME SchedulerInv, ChangelogInv, AddNewTargetGroups
  PROVE  ChangelogInv'
<1>1. StoredOK(cp, stored) /\ LogsOK(cp) /\ StoredLog(cp, stored)  BY DEF SchedulerInv, ChangelogInv
<1>2. UNCHANGED cp /\ sched.pc = "add" /\ sched.pc \in Jobs  BY DEF AddNewTargetGroups, Jobs
<1>3. JobShape(sched) /\ sched.update = {} /\ JobLogs(cp, stored, sched) /\ CurrentLog(cp, stored, sched)
  BY <1>2 DEF SchedulerInv, ChangelogInv, SchedLogs, SchedOK, JobOK, JobBase
<1>4. CASE sched.cur # <<>>
  <2> DEFINE c == sched.cur[1]
             e == EndpointsOfChangelog(c)
             n == SetDesiredEndpoints(c, e)
  <2>1. PartFrom(cp, c, 0)  BY <1>2, <1>3, <1>4 DEF CurrentLog
  <2>2. WriteOrFail(n) /\ sched' = Stage([sched EXCEPT !.cur = <<>>])  BY <1>4 DEF AddNewTargetGroups
  <2> HIDE DEF c
  <2>3. c.ver \in Nat /\ c.ver <= Len(cp.log[c.tg]) /\ c.log = SubSeq(cp.log[c.tg], 0 + 1, c.ver)
    BY <2>1 DEF PartFrom
  <2>4. e = ConstructEndpoints(Empty, SubSeq(cp.log[c.tg], 1, c.ver))
    <3>1. 0 + 1 = 1  OBVIOUS
    <3>2. c.log = SubSeq(cp.log[c.tg], 1, c.ver)  BY <2>3, <3>1, Zenon
    <3> QED  BY <3>2, Zenon DEF EndpointsOfChangelog
  <2> HIDE DEF e
  <2>5. StoredLog(cp, n)  BY <1>1, <2>3, <2>4, EndpointsFollow
  <2> HIDE DEF n
  <2> QED  BY <1>2, <1>3, <2>2, <2>5, CurrentLogs
<1>5. ASSUME NEW c \in sched.add, stored' = SetDesiredSpec(c), sched' = [sched EXCEPT !.cur = <<c>>, !.add = @ \ {c}]
      PROVE  ChangelogInv'
  <2>1. stored'.eps = stored.eps  BY <1>1, <1>5, SpecLeavesEndpoints
  <2>2. StoredLog(cp, stored') /\ \A tg : VersionIn(stored', tg) = VersionIn(stored, tg)
    BY <1>1, <2>1 DEF StoredLog, VersionIn, Has
  <2>3. sched' = [pc |-> "add", cur |-> <<c>>, update |-> sched.update, add |-> sched.add \ {c},
                  remove |-> sched.remove, version |-> sched.version, send |-> sched.send]
    BY <1>2, <1>3, <1>5 DEF JobShape
  <2>4. sched'.pc = "add" /\ sched'.cur[1] = c /\ sched'.update = sched.update /\ sched'.add = sched.add \ {c}
    BY <2>3
  <2>5. JobLogs(cp, stored', sched)  BY <1>3, <2>2, JobLogsKept
  <2>6. JobLogs(cp, stored', sched')  BY <2>4, <2>5 DEF JobLogs
  <2>7. CurrentLog(cp, stored', sched')  BY <2>4, <2>5 DEF CurrentLog, JobLogs
  <2>8. SchedLogs(cp, stored', sched')  BY <2>6, <2>7 DEF SchedLogs
  <2> QED  BY <1>1, <1>2, <2>2, <2>8, LogsMove
<1>6. ASSUME NEW c \in sched.add, AbandonAdd(c), UNCHANGED stored
      PROVE  ChangelogInv'
  <2>1. StoredLog(cp, stored') /\ SchedLogs(cp, stored', sched')  BY <1>1, <1>6, IdleLogs DEF AbandonAdd
  <2> QED  BY <1>1, <1>2, <2>1, LogsMove
<1> QED  BY <1>4, <1>5, <1>6 DEF AddNewTargetGroups

LEMMA RemoveLogs ==
  ASSUME SchedulerInv, ChangelogInv, RemoveTargetGroups
  PROVE  ChangelogInv'
<1>1. StoredOK(cp, stored) /\ LogsOK(cp) /\ StoredLog(cp, stored)  BY DEF SchedulerInv, ChangelogInv
<1>2. UNCHANGED cp /\ sched.pc = "remove" /\ sched.pc \in Jobs  BY DEF RemoveTargetGroups, Jobs
<1>3. JobShape(sched) /\ sched.update = {} /\ sched.add = {} /\ sched.cur = <<>>
  BY <1>2 DEF SchedulerInv, SchedOK, JobOK, JobBase
<1>4. CASE stored' = DeletedDesired(sched.remove) /\ sched' = [sched EXCEPT !.pc = "save"]
  <2>1. stored'.eps = Without(stored.eps, sched.remove)  BY <1>1, <1>4 DEF DeletedDesired, StoredOK
  <2>2. /\ DOMAIN stored'.eps = DOMAIN stored.eps \ sched.remove
        /\ \A x \in DOMAIN stored.eps \ sched.remove : stored'.eps[x] = stored.eps[x]
    BY <2>1 DEF Without, Restrict
  <2>3. StoredLog(cp, stored')  BY <1>1, <2>2 DEF StoredLog
  <2>4. sched' = [pc |-> "save", cur |-> sched.cur, update |-> sched.update, add |-> sched.add,
                  remove |-> sched.remove, version |-> sched.version, send |-> sched.send]
    BY <1>3, <1>4 DEF JobShape
  <2>5. sched'.cur = <<>> /\ sched'.update = {} /\ sched'.add = {}  BY <1>3, <2>4
  <2>6. SchedLogs(cp, stored', sched')  BY <2>5 DEF SchedLogs, JobLogs, CurrentLog
  <2> QED  BY <1>1, <1>2, <2>3, <2>6, LogsMove
<1>5. CASE sched' = IdleSched /\ UNCHANGED stored
  <2>1. StoredLog(cp, stored') /\ SchedLogs(cp, stored', sched')  BY <1>1, <1>5, IdleLogs
  <2> QED  BY <1>1, <1>2, <2>1, LogsMove
<1> QED  BY <1>4, <1>5 DEF RemoveTargetGroups

LEMMA SaveLogs ==
  ASSUME SchedulerInv, ChangelogInv, SavePlacementVersion
  PROVE  ChangelogInv'
<1>1. StoredOK(cp, stored) /\ LogsOK(cp) /\ StoredLog(cp, stored)  BY DEF SchedulerInv, ChangelogInv
<1>2. UNCHANGED cp  BY DEF SavePlacementVersion
<1>3. stored'.eps = stored.eps  BY <1>1 DEF SavePlacementVersion, StoredOK
<1>4. sched'.pc \notin Jobs  BY DEF SavePlacementVersion, IdleSched, Jobs
<1>5. StoredLog(cp, stored') /\ SchedLogs(cp, stored', sched')  BY <1>1, <1>3, <1>4, SameEndpoints DEF SchedLogs
<1> QED  BY <1>1, <1>2, <1>5, LogsMove

LEMMA IdleAgain ==
  ASSUME ChangelogInv, UNCHANGED <<cp, stored>>, sched' = IdleSched
  PROVE  ChangelogInv'
<1>1. LogsOK(cp) /\ StoredLog(cp, stored') /\ SchedLogs(cp, stored', sched')  BY IdleLogs DEF ChangelogInv
<1> QED  BY <1>1, LogsMove

LEMMA OtherLogs ==
  ASSUME SchedulerInv, ChangelogInv, [Next]_vars, UNCHANGED <<stored, sched>>
  PROVE  ChangelogInv'
<1>1. /\ CpInv /\ LogsOK(cp) /\ StoredLog(cp, stored) /\ SchedLogs(cp, stored, sched)
      /\ DOMAIN stored.eps \subseteq TargetGroups
  BY DEF SchedulerInv, ChangelogInv, StoredOK
<1>2. LogsOK(cp') /\ LogsGrow(cp, cp')  BY <1>1, LogsNext
<1>3. StoredLog(cp', stored) /\ SchedLogs(cp', stored, sched)  BY <1>1, <1>2, LogsKept
<1>4. LogsOK(cp)' /\ StoredLog(cp, stored)' /\ SchedLogs(cp, stored, sched)'  BY <1>2, <1>3
<1> QED  BY <1>4 DEF ChangelogInv

LEMMA ChangelogNext == SchedulerInv /\ ChangelogInv /\ [Next]_vars => ChangelogInv'
<1> SUFFICES ASSUME SchedulerInv, ChangelogInv, [Next]_vars PROVE ChangelogInv'
  OBVIOUS
<1>1. ASSUME UNCHANGED <<stored, sched>> PROVE ChangelogInv'  BY <1>1, OtherLogs
<1>2. CASE Scheduling
  <2>1. CASE MakeReconcileEvent  BY <2>1, IdleAgain DEF MakeReconcileEvent
  <2> QED  BY <1>2, <2>1, PollLogs, UpdateLogs, AddLogs, RemoveLogs, SaveLogs DEF Scheduling
<1>3. ASSUME Reboot PROVE ChangelogInv'  BY <1>3, IdleAgain DEF Reboot
<1>4. CASE Working
  <2>1. CASE ReadVersions  BY <1>1, <1>3, <2>1 DEF ReadVersions
  <2>2. CASE Take \/ ReconcileSpec \/ RemoveEndpoints \/ AddEndpoints \/ RemoveTgEndpoints \/ RemoveSpec
    BY <1>1, <2>2 DEF Take, ReconcileSpec, RemoveEndpoints, AddEndpoints, RemoveTgEndpoints, RemoveSpec
  <2> QED  BY <1>4, <2>1, <2>2 DEF Working
<1>5. CASE Crash  BY <1>3, <1>5 DEF Crash
<1>6. CASE \E tg \in TargetGroups : Change(tg) \/ ForceReconcile(tg) \/ TakeTask(tg)
  BY <1>1, <1>6 DEF Change, ForceReconcile, TakeTask
<1>7. CASE \E tg \in TargetGroups, up \in HealthyEndpoints : StatusesChange(tg, up)
  BY <1>1, <1>7 DEF StatusesChange
<1>8. CASE \E tgs \in SUBSET TargetGroups : ChangePlacement(tgs)  BY <1>1, <1>8 DEF ChangePlacement
<1>9. CASE UNCHANGED vars  BY <1>1, <1>9 DEF vars
<1> QED  BY <1>2, <1>4, <1>5, <1>6, <1>7, <1>8, <1>9 DEF Next

LEMMA ChangelogInit == Init => ChangelogInv
<1> SUFFICES ASSUME Init PROVE ChangelogInv
  OBVIOUS
<1> DEFINE e == CHOOSE e \in Endpoints : TRUE
<1>1. cp.log = [tg \in TargetGroups |-> <<[ep |-> e, w |-> 1]>>] /\ stored.eps = Empty /\ sched = IdleSched
  BY DEF Init
<1>2. [ep |-> e, w |-> 1] \in Entries  BY DEF Entries
<1> HIDE DEF e
<1>3. LogsOK(cp)  BY <1>1, <1>2 DEF LogsOK
<1>4. StoredLog(cp, stored)  BY <1>1, EmptyDomain DEF StoredLog
<1>5. SchedLogs(cp, stored, sched)  BY <1>1, IdleLogs
<1> QED  BY <1>3, <1>4, <1>5 DEF ChangelogInv

(* The stored endpoints of every target group are the ones its changelog   *)
(* leads to at the stored version, whatever fails and however often an     *)
(* answer is applied: updateTargetGroups and addNewTargetGroups            *)
(* (reconciler.go:218-263), SetDesiredEndpoints (storage.go:370-391).      *)
THEOREM StoredIsFollowed == Spec => []StoredFollowsChangelog
<1>1. ChangelogInv => StoredFollowsChangelog  BY DEF ChangelogInv, StoredLog, StoredFollowsChangelog
<1>2. Spec => []ChangelogInv  BY AgentInvariant, ChangelogInit, ChangelogNext, PTL DEF Spec
<1> QED  BY <1>1, <1>2, PTL
=============================================================================
