----------------------- MODULE EndpointStatusesProofs -----------------------
(***************************************************************************)
(* Proofs about module EndpointStatuses, for every set of target groups    *)
(* and endpoints and every capacity of the task channel.                   *)
(*                                                                         *)
(* TypeInv gives the shape of the state.  WorkInv compares what a worker   *)
(* has applied, or read so far, with the statuses through their            *)
(* generation, which grows whenever the set of healthy endpoints changes.  *)
(***************************************************************************)
EXTENDS EndpointStatuses, TLAPS

Partial(D, R) == UNION {[S -> R] : S \in SUBSET D}

Status == [up : BOOLEAN, at : Nat]
Tables == Partial(Endpoints, Status)
Cells == [gen : Nat, of : Tables]
Messages == [op : {"u", "d"}, tg : TargetGroups, ep : Endpoints, up : BOOLEAN, at : Nat]

Syncs == [pc : {"idle", "enter"}, tgs : SUBSET TargetGroups]
         \cup [pc : {"fetch"}, tgs : SUBSET TargetGroups, rows : Partial(TargetGroups, Tables)]
Readers == [pos : Int, committed : Int, pc : {"idle", "apply", "commit"}]
Tasks == [pc : {"read"}, tg : TargetGroups, gen : Seq(Nat), left : SUBSET Endpoints, up : SUBSET Endpoints]

ServiceInv == rows \in [TargetGroups -> Tables] /\ topic \in Seq(Messages)

SetsInv ==
    /\ desired \subseteq TargetGroups /\ watched \subseteq TargetGroups /\ stopping \subseteq TargetGroups
    /\ guard \in {Free, "sync", "reader"}
    /\ tasks \in Nat /\ tasks <= TaskChanCap
    /\ missed \in BOOLEAN

ReaderInv ==
    /\ reader \in Readers
    /\ -1 <= reader.pos /\ reader.pos <= Len(topic)
    /\ -1 <= reader.committed /\ reader.committed <= Len(topic)
    /\ reader.pc = "apply" => reader.pos >= 1

StatusesInv == statuses \in Partial(TargetGroups, Cells)

WorkerInv ==
    /\ worker \in {IdleWorker} \cup Tasks
    /\ applied \in Partial(TargetGroups, SUBSET Endpoints)
    /\ cachedGen \in Partial(TargetGroups, Nat)

TypeInv == ServiceInv /\ SetsInv /\ sync \in Syncs /\ ReaderInv /\ StatusesInv /\ WorkerInv

-----------------------------------------------------------------------------
(* The generation of a target group and its healthy endpoints in a table   *)
(* of statuses.                                                            *)
GenIn(s, tg) == IF tg \in DOMAIN s THEN s[tg].gen ELSE 0
UpIn(s, tg) == {e \in Endpoints : tg \in DOMAIN s /\ e \in DOMAIN s[tg].of /\ s[tg].of[e].up}

Advances(s, t, tg) == GenIn(t, tg) > GenIn(s, tg) \/ (GenIn(t, tg) = GenIn(s, tg) /\ UpIn(t, tg) = UpIn(s, tg))

NotOlder(s, t) ==
    \A tg \in DOMAIN s \cap DOMAIN t : \A e \in DOMAIN s[tg].of \cap DOMAIN t[tg].of : s[tg].of[e].at <= t[tg].of[e].at

Reads(tg) == worker.pc # "idle" /\ worker.tg = tg

AppliedInv(tg) ==
    /\ tg \in DOMAIN cachedGen /\ cachedGen[tg] <= GenIn(statuses, tg)
    /\ cachedGen[tg] = GenIn(statuses, tg) => applied[tg] = UpIn(statuses, tg)

ReadInv(tg) ==
    /\ AppliedGeneration(worker) <= GenIn(statuses, tg)
    /\ AppliedGeneration(worker) = GenIn(statuses, tg) => worker.up = UpIn(statuses, tg) \ worker.left

WorkInv ==
    ~missed => \A tg \in desired :
                  /\ tg \in DOMAIN applied /\ ~Reads(tg) => AppliedInv(tg)
                  /\ Reads(tg) => ReadInv(tg)

-----------------------------------------------------------------------------
LEMMA PartialFunction ==
  ASSUME NEW D, NEW R, NEW f \in Partial(D, R)
  PROVE  /\ DOMAIN f \subseteq D
         /\ \A x \in DOMAIN f : f[x] \in R
  BY DEF Partial

LEMMA MakePartial ==
  ASSUME NEW D, NEW R, NEW S \in SUBSET D, NEW f \in [S -> R]
  PROVE  f \in Partial(D, R)
  BY DEF Partial

LEMMA PutValues ==
  ASSUME NEW f, NEW k, NEW v
  PROVE  /\ DOMAIN Put(f, k, v) = DOMAIN f \cup {k}
         /\ Put(f, k, v)[k] = v
         /\ \A x \in DOMAIN f : x # k => Put(f, k, v)[x] = f[x]
  BY DEF Put

LEMMA PutPartial ==
  ASSUME NEW D, NEW R, NEW f \in Partial(D, R), NEW k \in D, NEW v \in R
  PROVE  Put(f, k, v) \in Partial(D, R)
<1>1. DOMAIN f \subseteq D /\ \A x \in DOMAIN f : f[x] \in R  BY PartialFunction
<1>2. Put(f, k, v) \in [DOMAIN f \cup {k} -> R]  BY <1>1 DEF Put
<1> QED  BY <1>1, <1>2, MakePartial

LEMMA WithoutValues ==
  ASSUME NEW f, NEW ks
  PROVE  /\ DOMAIN Without(f, ks) = DOMAIN f \ ks
         /\ \A x \in DOMAIN f \ ks : Without(f, ks)[x] = f[x]
  BY DEF Without, Restrict

LEMMA WithoutPartial ==
  ASSUME NEW D, NEW R, NEW f \in Partial(D, R), NEW ks
  PROVE  Without(f, ks) \in Partial(D, R)
<1>1. DOMAIN f \subseteq D /\ \A x \in DOMAIN f : f[x] \in R  BY PartialFunction
<1>2. Without(f, ks) \in [DOMAIN f \ ks -> R]  BY <1>1 DEF Without, Restrict
<1> QED  BY <1>1, <1>2, MakePartial

LEMMA EmptyPartial ==
  ASSUME NEW D, NEW R
  PROVE  Empty \in Partial(D, R) /\ DOMAIN Empty = {}
<1>1. Empty \in [{} -> R] /\ DOMAIN Empty = {}  BY DEF Empty
<1> QED  BY <1>1, MakePartial

(* A cell of the table and its fields.                                     *)
LEMMA CellFields ==
  ASSUME NEW s \in Partial(TargetGroups, Cells), NEW tg \in DOMAIN s
  PROVE  /\ tg \in TargetGroups /\ s[tg].gen \in Nat /\ s[tg].of \in Tables
         /\ DOMAIN s[tg].of \subseteq Endpoints
         /\ \A e \in DOMAIN s[tg].of : s[tg].of[e].up \in BOOLEAN /\ s[tg].of[e].at \in Nat
<1>1. tg \in TargetGroups /\ s[tg] \in Cells  BY PartialFunction
<1>2. s[tg].gen \in Nat /\ s[tg].of \in Tables  BY <1>1 DEF Cells
<1>3. DOMAIN s[tg].of \subseteq Endpoints /\ \A e \in DOMAIN s[tg].of : s[tg].of[e] \in Status
  BY <1>2, PartialFunction DEF Tables
<1> QED  BY <1>1, <1>2, <1>3 DEF Status

(* updateEndpointStatuses puts a cell whose generation grows unless the    *)
(* same endpoints are healthy, and in which no status is older.            *)
LEMMA Update ==
  ASSUME StatusesInv, NEW who, NEW tg \in TargetGroups, NEW new \in Tables, UpdateEndpointStatuses(who, tg, new)
  PROVE  /\ StatusesInv' /\ guard' \in {who, Free}
         /\ \A u \in TargetGroups : Advances(statuses, statuses', u)
         /\ NotOlder(statuses, statuses')
<1> DEFINE known == Known(tg)
           fresh == DOMAIN new \ DOMAIN known.of
           later == {e \in DOMAIN new \cap DOMAIN known.of : Accepts(known.of[e], new[e])}
           flipped == {e \in later : known.of[e].up # new[e].up}
           changed == fresh \cup flipped # {}
           of == [e \in DOMAIN known.of \cup fresh |-> IF e \in fresh \cup later THEN new[e] ELSE known.of[e]]
           gen == known.gen + (IF changed THEN 1 ELSE 0)
<1>1. statuses' = Put(statuses, tg, [gen |-> gen, of |-> of]) /\ guard' \in {who, Free}
  BY DEF UpdateEndpointStatuses
<1>2. /\ known.gen \in Nat /\ known.of \in Tables
      /\ tg \in DOMAIN statuses => known = statuses[tg]
      /\ tg \notin DOMAIN statuses => known.gen = 0 /\ known.of = Empty
  <2>1. CASE tg \in DOMAIN statuses  BY <2>1, CellFields DEF StatusesInv, Known
  <2>2. CASE tg \notin DOMAIN statuses
    <3>1. Empty \in Tables  BY EmptyPartial DEF Tables
    <3> QED  BY <2>2, <3>1 DEF Known
  <2> QED  BY <2>1, <2>2
<1> HIDE DEF known
<1>3. /\ DOMAIN known.of \subseteq Endpoints /\ DOMAIN new \subseteq Endpoints
      /\ \A e \in DOMAIN known.of : known.of[e] \in Status
      /\ \A e \in DOMAIN new : new[e] \in Status
  BY <1>2, PartialFunction DEF Tables
<1>4. /\ DOMAIN of = DOMAIN known.of \cup fresh
      /\ \A e \in fresh \cup later : of[e] = new[e]
      /\ \A e \in DOMAIN known.of \ later : of[e] = known.of[e]
      /\ of \in [DOMAIN known.of \cup fresh -> Status]
  BY <1>3
<1>5. gen \in Nat  BY <1>2
<1>6. of \in Tables  BY <1>3, <1>4, MakePartial DEF Tables
<1>7. \A e \in DOMAIN known.of : known.of[e].at <= of[e].at
  <2> SUFFICES ASSUME NEW e \in DOMAIN known.of PROVE known.of[e].at <= of[e].at
    OBVIOUS
  <2>1. known.of[e].at \in Nat  BY <1>3 DEF Status
  <2>2. CASE e \in later
    <3>1. new[e].at \in Nat /\ ~(known.of[e].at > new[e].at)  BY <1>3, <2>2 DEF Status, Accepts
    <3> QED  BY <1>4, <2>1, <2>2, <3>1
  <2>3. CASE e \notin later  BY <1>4, <2>1, <2>3
  <2> QED  BY <2>2, <2>3
<1>8. ~changed => gen = known.gen /\ DOMAIN of = DOMAIN known.of /\ \A e \in DOMAIN known.of : of[e].up = known.of[e].up
  <2> SUFFICES ASSUME ~changed
               PROVE  gen = known.gen /\ DOMAIN of = DOMAIN known.of /\ \A e \in DOMAIN known.of : of[e].up = known.of[e].up
    OBVIOUS
  <2>1. fresh = {} /\ flipped = {}  OBVIOUS
  <2>2. gen = known.gen  BY <1>2
  <2>3. \A e \in DOMAIN known.of : of[e].up = known.of[e].up  BY <1>4, <2>1
  <2> QED  BY <1>4, <2>1, <2>2, <2>3
<1>9. changed => gen > known.gen  BY <1>2
<1> HIDE DEF of, gen, changed
<1> DEFINE cell == [gen |-> gen, of |-> of]
<1>10. cell \in Cells /\ cell.gen = gen /\ cell.of = of  BY <1>5, <1>6 DEF Cells
<1>11. /\ StatusesInv' /\ DOMAIN statuses' = DOMAIN statuses \cup {tg}
       /\ statuses'[tg].gen = gen /\ statuses'[tg].of = of
       /\ \A u \in DOMAIN statuses : u # tg => statuses'[u] = statuses[u]
  <2>1. statuses' = Put(statuses, tg, cell) /\ statuses \in Partial(TargetGroups, Cells)  BY <1>1 DEF StatusesInv
  <2> HIDE DEF cell
  <2>2. StatusesInv'  BY <1>10, <2>1, PutPartial DEF StatusesInv
  <2>3. /\ DOMAIN statuses' = DOMAIN statuses \cup {tg} /\ statuses'[tg] = cell
        /\ \A u \in DOMAIN statuses : u # tg => statuses'[u] = statuses[u]
    BY <2>1 DEF Put
  <2> QED  BY <1>10, <2>2, <2>3
<1>12. NotOlder(statuses, statuses')
  <2> SUFFICES ASSUME NEW u \in DOMAIN statuses, NEW e \in DOMAIN statuses[u].of, e \in DOMAIN statuses'[u].of
               PROVE  statuses[u].of[e].at <= statuses'[u].of[e].at
    BY DEF NotOlder
  <2>1. CASE u = tg  BY <1>2, <1>7, <1>11, <2>1
  <2>2. CASE u # tg
    <3>1. statuses[u].of[e].at \in Nat  BY CellFields DEF StatusesInv
    <3> QED  BY <1>11, <2>2, <3>1
  <2> QED  BY <2>1, <2>2
<1>13. ASSUME NEW u \in TargetGroups PROVE Advances(statuses, statuses', u)
  <2>1. CASE u # tg
    <3>1. u \in DOMAIN statuses' <=> u \in DOMAIN statuses  BY <1>11, <2>1
    <3>2. u \in DOMAIN statuses => statuses'[u] = statuses[u]  BY <1>11, <2>1
    <3> QED  BY <3>1, <3>2 DEF Advances, GenIn, UpIn
  <2>2. CASE u = tg
    <3>1. GenIn(statuses, tg) = known.gen /\ GenIn(statuses', tg) = gen  BY <1>2, <1>11 DEF GenIn
    <3>2. UpIn(statuses', tg) = {e \in Endpoints : e \in DOMAIN of /\ of[e].up}  BY <1>11 DEF UpIn
    <3>3. UpIn(statuses, tg) = {e \in Endpoints : e \in DOMAIN known.of /\ known.of[e].up}
      <4>1. tg \notin DOMAIN statuses => DOMAIN known.of = {}  BY <1>2, EmptyPartial
      <4> QED  BY <1>2, <4>1 DEF UpIn
    <3>4. CASE changed  BY <1>9, <2>2, <3>1, <3>4 DEF Advances
    <3>5. CASE ~changed
      <4>1. UpIn(statuses', tg) = UpIn(statuses, tg)  BY <1>8, <3>2, <3>3, <3>5
      <4> QED  BY <1>8, <2>2, <3>1, <3>5, <4>1 DEF Advances
    <3> QED  BY <3>4, <3>5
  <2> QED  BY <2>1, <2>2
<1> QED  BY <1>1, <1>11, <1>12, <1>13

(* A deletion, when the table has the target group.                        *)
LEMMA Removal ==
  ASSUME StatusesInv, NEW tg \in TargetGroups, NEW ep \in Endpoints, RemoveEndpoint(tg, ep)
  PROVE  /\ StatusesInv' /\ guard' \in {"reader", Free}
         /\ \A u \in TargetGroups : Advances(statuses, statuses', u)
         /\ NotOlder(statuses, statuses')
<1>1. CASE tg \notin DOMAIN statuses
  <2>1. statuses' = statuses /\ guard' = Free  BY <1>1 DEF RemoveEndpoint
  <2>2. \A u \in TargetGroups : Advances(statuses, statuses', u)  BY <2>1 DEF Advances
  <2>3. NotOlder(statuses, statuses')
    <3> SUFFICES ASSUME NEW u \in DOMAIN statuses, NEW e \in DOMAIN statuses[u].of
                 PROVE  statuses[u].of[e].at <= statuses[u].of[e].at
      BY <2>1 DEF NotOlder
    <3>1. statuses[u].of[e].at \in Nat  BY CellFields DEF StatusesInv
    <3> QED  BY <3>1
  <2> QED  BY <2>1, <2>2, <2>3 DEF StatusesInv
<1>2. CASE tg \in DOMAIN statuses
  <2> DEFINE old == statuses[tg]
             cell == [gen |-> old.gen + 1, of |-> Without(old.of, {ep})]
  <2>1. statuses' = [statuses EXCEPT ![tg] = cell] /\ guard' = "reader"  BY <1>2 DEF RemoveEndpoint
  <2>2. old.gen \in Nat /\ old.of \in Tables  BY <1>2, CellFields DEF StatusesInv
  <2> HIDE DEF old
  <2>3. /\ Without(old.of, {ep}) \in Tables /\ DOMAIN Without(old.of, {ep}) = DOMAIN old.of \ {ep}
        /\ \A e \in DOMAIN old.of \ {ep} : Without(old.of, {ep})[e] = old.of[e]
    <3>1. Without(old.of, {ep}) \in Tables  BY <2>2, WithoutPartial DEF Tables
    <3> QED  BY <3>1, WithoutValues
  <2>4. cell \in Cells /\ cell.gen = old.gen + 1 /\ cell.of = Without(old.of, {ep})  BY <2>2, <2>3 DEF Cells
  <2> HIDE DEF cell
  <2>5. DOMAIN statuses \in SUBSET TargetGroups /\ statuses \in [DOMAIN statuses -> Cells]
    BY DEF StatusesInv, Partial
  <2>6. /\ statuses' \in [DOMAIN statuses -> Cells] /\ DOMAIN statuses' = DOMAIN statuses /\ statuses'[tg] = cell
        /\ \A u \in DOMAIN statuses : u # tg => statuses'[u] = statuses[u]
    BY <1>2, <2>1, <2>4, <2>5
  <2>7. StatusesInv'  BY <2>5, <2>6, MakePartial DEF StatusesInv
  <2>8. ASSUME NEW u \in TargetGroups PROVE Advances(statuses, statuses', u)
    <3>1. CASE u = tg
      <4>1. GenIn(statuses', u) = old.gen + 1 /\ GenIn(statuses, u) = old.gen
        BY <1>2, <2>4, <2>6, <3>1 DEF GenIn, old
      <4> QED  BY <2>2, <4>1 DEF Advances
    <3>2. CASE u # tg  BY <2>6, <3>2 DEF Advances, GenIn, UpIn
    <3> QED  BY <3>1, <3>2
  <2>9. NotOlder(statuses, statuses')
    <3> SUFFICES ASSUME NEW u \in DOMAIN statuses, NEW e \in DOMAIN statuses[u].of, e \in DOMAIN statuses'[u].of
                 PROVE  statuses[u].of[e].at <= statuses'[u].of[e].at
      BY DEF NotOlder
    <3>1. statuses[u].of[e].at \in Nat  BY CellFields DEF StatusesInv
    <3>2. statuses'[u].of[e] = statuses[u].of[e]
      <4>1. CASE u = tg  BY <2>3, <2>4, <2>6, <4>1 DEF old
      <4>2. CASE u # tg  BY <2>6, <4>2
      <4> QED  BY <4>1, <4>2
    <3> QED  BY <3>1, <3>2
  <2> QED  BY <2>1, <2>7, <2>8, <2>9
<1> QED  BY <1>1, <1>2

(* What the fetches and the topic give to updateEndpointStatuses.          *)
LEMMA FetchedTable ==
  ASSUME TypeInv, sync.pc = "fetch", NEW tg \in DOMAIN sync.rows
  PROVE  sync.rows[tg] \in Tables
<1>1. sync.rows \in Partial(TargetGroups, Tables)  BY DEF TypeInv, Syncs
<1> QED  BY <1>1, PartialFunction

LEMMA ReadMessage ==
  ASSUME TypeInv, reader.pc = "apply"
  PROVE  LET m == topic[reader.pos] IN
         /\ reader.pos \in 1 .. Len(topic) /\ m \in Messages /\ m.tg \in TargetGroups /\ m.ep \in Endpoints
         /\ Put(Empty, m.ep, [up |-> m.up, at |-> m.at]) \in Tables
<1> DEFINE m == topic[reader.pos]
           v == [up |-> m.up, at |-> m.at]
<1>1. reader.pos \in 1 .. Len(topic) /\ topic \in Seq(Messages)
  BY DEF TypeInv, ServiceInv, ReaderInv, Readers
<1>2. m \in Messages  BY <1>1
<1> HIDE DEF m
<1>3. m.tg \in TargetGroups /\ m.ep \in Endpoints /\ v \in Status  BY <1>2 DEF Messages, Status
<1> HIDE DEF v
<1>4. Put(Empty, m.ep, v) \in Tables
  <2>1. Empty \in Tables  BY EmptyPartial DEF Tables
  <2> QED  BY <1>3, <2>1, PutPartial DEF Tables
<1> QED  BY <1>1, <1>2, <1>3, <1>4 DEF m, v

(* Where statuses change.                                                  *)
Clears == \E tgs \in SUBSET TargetGroups : /\ statuses' = Without(statuses, tgs) /\ desired' = desired \ tgs
                                           /\ UNCHANGED workerVars /\ missed' = missed

LEMMA StatusesSteps ==
  ASSUME TypeInv, [Next]_vars
  PROVE  /\ StatusesInv' /\ NotOlder(statuses, statuses')
         /\ \/ (\A u \in TargetGroups : Advances(statuses, statuses', u))
            \/ Clears \/ Restart
<1>0. StatusesInv  BY DEF TypeInv
<1>1. ASSUME UNCHANGED statuses
      PROVE  /\ StatusesInv' /\ NotOlder(statuses, statuses')
             /\ \A u \in TargetGroups : Advances(statuses, statuses', u)
  <2>1. \A u \in DOMAIN statuses : \A e \in DOMAIN statuses[u].of : statuses[u].of[e].at \in Nat
    BY <1>0, CellFields DEF StatusesInv
  <2>2. NotOlder(statuses, statuses)  BY <2>1 DEF NotOlder
  <2> QED  BY <1>0, <1>1, <2>2 DEF StatusesInv, Advances
<1>2. ASSUME NEW tg \in TargetGroups, ApplyFetched(tg)
      PROVE  /\ StatusesInv' /\ NotOlder(statuses, statuses')
             /\ \A u \in TargetGroups : Advances(statuses, statuses', u)
  <2>1. sync.rows[tg] \in Tables /\ UpdateEndpointStatuses("sync", tg, sync.rows[tg])
    BY <1>2, FetchedTable DEF ApplyFetched
  <2> QED  BY <1>0, <2>1, Update
<1>3. ASSUME HandleMessage
      PROVE  /\ StatusesInv' /\ NotOlder(statuses, statuses')
             /\ \A u \in TargetGroups : Advances(statuses, statuses', u)
  <2> DEFINE m == topic[reader.pos]
             new == Put(Empty, m.ep, [up |-> m.up, at |-> m.at])
  <2>1. /\ reader.pc = "apply"
        /\ UpdateEndpointStatuses("reader", m.tg, new) \/ RemoveEndpoint(m.tg, m.ep)
    BY <1>3 DEF HandleMessage
  <2>2. m.tg \in TargetGroups /\ m.ep \in Endpoints /\ new \in Tables  BY <2>1, ReadMessage
  <2> HIDE DEF m, new
  <2>3. CASE UpdateEndpointStatuses("reader", m.tg, new)  BY <1>0, <2>2, <2>3, Update
  <2>4. CASE RemoveEndpoint(m.tg, m.ep)  BY <1>0, <2>2, <2>4, Removal
  <2> QED  BY <2>1, <2>3, <2>4
<1>4. ASSUME StopWatchStatuses PROVE StatusesInv' /\ NotOlder(statuses, statuses') /\ Clears
  <2>1. statuses' = Without(statuses, stopping) /\ stopping \in SUBSET TargetGroups
    BY <1>4 DEF StopWatchStatuses, TypeInv, SetsInv
  <2>2. /\ StatusesInv' /\ DOMAIN statuses' = DOMAIN statuses \ stopping
        /\ \A u \in DOMAIN statuses' : statuses'[u] = statuses[u]
    <3>1. StatusesInv'  BY <1>0, <2>1, WithoutPartial DEF StatusesInv
    <3>2. DOMAIN statuses' = DOMAIN statuses \ stopping  BY <2>1, WithoutValues
    <3>3. \A u \in DOMAIN statuses \ stopping : statuses'[u] = statuses[u]  BY <2>1, WithoutValues
    <3> QED  BY <3>1, <3>2, <3>3
  <2>3. \A u \in DOMAIN statuses : \A e \in DOMAIN statuses[u].of : statuses[u].of[e].at \in Nat
    BY <1>0, CellFields DEF StatusesInv
  <2>4. NotOlder(statuses, statuses')  BY <2>2, <2>3 DEF NotOlder
  <2> QED  BY <1>4, <2>1, <2>2, <2>4 DEF StopWatchStatuses, Clears
<1>5. ASSUME Restart PROVE StatusesInv' /\ NotOlder(statuses, statuses')
  <2>1. statuses' = Empty  BY <1>5 DEF Restart
  <2>2. StatusesInv' /\ DOMAIN statuses' = {}  BY <2>1, EmptyPartial DEF StatusesInv
  <2> QED  BY <2>2 DEF NotOlder
<1>6. CASE \E tg \in TargetGroups : WatchForTargetGroup(tg) \/ StopWatch(tg)
  BY <1>1, <1>6 DEF WatchForTargetGroup, StopWatch
<1>7. CASE \E tg \in TargetGroups, e \in Endpoints : ChangeRow(tg, e)  BY <1>1, <1>7 DEF ChangeRow
<1>8. CASE TriggerReconciliation \/ TakeTask  BY <1>1, <1>8 DEF TriggerReconciliation, TakeTask
<1>9. CASE Syncing
  <2>1. CASE CollectWatched \/ EnterSync \/ FinishSync  BY <1>1, <2>1 DEF CollectWatched, EnterSync, FinishSync
  <2>2. CASE \E tg \in TargetGroups : Fetch(tg)  BY <1>1, <2>2 DEF Fetch
  <2>3. CASE \E tg \in TargetGroups : ApplyFetched(tg)  BY <1>2, <2>3
  <2> QED  BY <1>9, <2>1, <2>2, <2>3 DEF Syncing
<1>10. CASE Reading
  <2>1. CASE JoinTopic \/ FetchMessage \/ CommitMessage  BY <1>1, <2>1 DEF JoinTopic, FetchMessage, CommitMessage
  <2> QED  BY <1>3, <1>10, <2>1 DEF Reading
<1>11. CASE Working  BY <1>1, <1>11 DEF Working, StartTask, ReadStatus, ApplyStatuses
<1>12. CASE UNCHANGED vars  BY <1>1, <1>12 DEF vars
<1> QED  BY <1>4, <1>5, <1>6, <1>7, <1>8, <1>9, <1>10, <1>11, <1>12 DEF Next

-----------------------------------------------------------------------------
(* The shape of the state, one part after the other.                       *)
LEMMA ServiceNext ==
  ASSUME TypeInv, [Next]_vars
  PROVE  ServiceInv' /\ Len(topic) <= Len(topic')
<1>0. rows \in [TargetGroups -> Tables] /\ topic \in Seq(Messages) /\ Len(topic) \in Nat
  BY DEF TypeInv, ServiceInv
<1>1. ASSUME UNCHANGED serviceVars PROVE ServiceInv' /\ Len(topic) <= Len(topic')
  BY <1>0, <1>1 DEF ServiceInv, serviceVars
<1>2. ASSUME NEW tg \in TargetGroups, NEW e \in Endpoints, ChangeRow(tg, e)
      PROVE  ServiceInv' /\ Len(topic) <= Len(topic')
  <2> DEFINE at == Len(topic) + 1
  <2>1. \/ \E up \in BOOLEAN :
             /\ rows' = [rows EXCEPT ![tg] = Put(rows[tg], e, [up |-> up, at |-> at])]
             /\ topic' = Append(topic, [op |-> "u", tg |-> tg, ep |-> e, up |-> up, at |-> at])
        \/ /\ rows' = [rows EXCEPT ![tg] = Without(rows[tg], {e})]
           /\ topic' = Append(topic, [op |-> "d", tg |-> tg, ep |-> e, up |-> FALSE, at |-> at])
    BY <1>2 DEF ChangeRow
  <2>2. at \in Nat /\ rows[tg] \in Tables  BY <1>0
  <2> HIDE DEF at
  <2>3. ASSUME NEW m \in Messages, topic' = Append(topic, m), NEW tb \in Tables, rows' = [rows EXCEPT ![tg] = tb]
        PROVE  ServiceInv' /\ Len(topic) <= Len(topic')
    <3>1. topic' \in Seq(Messages) /\ Len(topic') = Len(topic) + 1  BY <1>0, <2>3
    <3>2. rows' \in [TargetGroups -> Tables]  BY <1>0, <2>3
    <3> QED  BY <1>0, <3>1, <3>2 DEF ServiceInv
  <2>4. CASE \E up \in BOOLEAN :
             /\ rows' = [rows EXCEPT ![tg] = Put(rows[tg], e, [up |-> up, at |-> at])]
             /\ topic' = Append(topic, [op |-> "u", tg |-> tg, ep |-> e, up |-> up, at |-> at])
    <3>1. PICK up \in BOOLEAN :
             /\ rows' = [rows EXCEPT ![tg] = Put(rows[tg], e, [up |-> up, at |-> at])]
             /\ topic' = Append(topic, [op |-> "u", tg |-> tg, ep |-> e, up |-> up, at |-> at])
      BY <2>4
    <3>2. [up |-> up, at |-> at] \in Status  BY <2>2 DEF Status
    <3>3. Put(rows[tg], e, [up |-> up, at |-> at]) \in Tables  BY <2>2, <3>2, PutPartial DEF Tables
    <3>4. [op |-> "u", tg |-> tg, ep |-> e, up |-> up, at |-> at] \in Messages  BY <2>2 DEF Messages
    <3> QED  BY <2>3, <3>1, <3>3, <3>4
  <2>5. CASE /\ rows' = [rows EXCEPT ![tg] = Without(rows[tg], {e})]
             /\ topic' = Append(topic, [op |-> "d", tg |-> tg, ep |-> e, up |-> FALSE, at |-> at])
    <3>1. Without(rows[tg], {e}) \in Tables  BY <2>2, WithoutPartial DEF Tables
    <3>2. [op |-> "d", tg |-> tg, ep |-> e, up |-> FALSE, at |-> at] \in Messages  BY <2>2 DEF Messages
    <3> QED  BY <2>3, <2>5, <3>1, <3>2
  <2> QED  BY <2>1, <2>4, <2>5
<1>3. CASE \E tg \in TargetGroups : WatchForTargetGroup(tg) \/ StopWatch(tg)
  BY <1>1, <1>3 DEF WatchForTargetGroup, StopWatch
<1>4. CASE StopWatchStatuses \/ TriggerReconciliation \/ TakeTask \/ Restart \/ UNCHANGED vars
  BY <1>1, <1>4 DEF StopWatchStatuses, TriggerReconciliation, TakeTask, Restart, vars
<1>5. CASE Syncing
  BY <1>1, <1>5 DEF Syncing, CollectWatched, EnterSync, FinishSync, Fetch, ApplyFetched
<1>6. CASE Reading
  BY <1>1, <1>6 DEF Reading, JoinTopic, FetchMessage, HandleMessage, CommitMessage
<1>7. CASE Working
  BY <1>1, <1>7 DEF Working, StartTask, ReadStatus, ApplyStatuses
<1> QED  BY <1>2, <1>3, <1>4, <1>5, <1>6, <1>7 DEF Next

LEMMA SyncShape ==
  ASSUME NEW s \in Syncs
  PROVE  /\ s.pc \in {"idle", "enter", "fetch"} /\ s.tgs \subseteq TargetGroups
         /\ s.pc = "fetch" => s.rows \in Partial(TargetGroups, Tables)
  BY DEF Syncs

LEMMA SyncMade ==
  ASSUME NEW tgs \in SUBSET TargetGroups
  PROVE  /\ [pc |-> "idle", tgs |-> tgs] \in Syncs /\ [pc |-> "enter", tgs |-> tgs] \in Syncs
         /\ \A r \in Partial(TargetGroups, Tables) : [pc |-> "fetch", tgs |-> tgs, rows |-> r] \in Syncs
  BY DEF Syncs

LEMMA SyncNext ==
  ASSUME TypeInv, [Next]_vars
  PROVE  sync' \in Syncs
<1>0. /\ sync \in Syncs /\ watched \subseteq TargetGroups /\ desired \subseteq TargetGroups
      /\ rows \in [TargetGroups -> Tables]
  BY DEF TypeInv, SetsInv, ServiceInv
<1>1. CASE UNCHANGED sync  BY <1>0, <1>1
<1>2. CASE CollectWatched  BY <1>0, <1>2, SyncMade DEF CollectWatched
<1>3. CASE EnterSync
  <2>1. sync' = [pc |-> "fetch", tgs |-> sync.tgs, rows |-> Empty]  BY <1>3 DEF EnterSync, NeedFetch
  <2>2. sync.tgs \in SUBSET TargetGroups /\ Empty \in Partial(TargetGroups, Tables)
    BY <1>0, SyncShape, EmptyPartial
  <2> QED  BY <2>1, <2>2, SyncMade
<1>4. CASE FinishSync
  <2>1. sync' = [pc |-> "idle", tgs |-> {}]  BY <1>4 DEF FinishSync, NoSync
  <2> QED  BY <2>1, SyncMade
<1>5. ASSUME NEW tgs \in SUBSET TargetGroups, NEW r \in Partial(TargetGroups, Tables), sync.pc = "fetch",
             sync' = [sync EXCEPT !.tgs = tgs, !.rows = r]
      PROVE  sync' \in Syncs
  <2>1. sync \in [pc : {"fetch"}, tgs : SUBSET TargetGroups, rows : Partial(TargetGroups, Tables)]
    BY <1>0, <1>5 DEF Syncs
  <2> QED  BY <1>5, <2>1 DEF Syncs
<1>6. ASSUME NEW tg \in TargetGroups, Fetch(tg) PROVE sync' \in Syncs
  <2>1. /\ sync.pc = "fetch" /\ sync.tgs \ {tg} \in SUBSET TargetGroups
        /\ sync.rows \in Partial(TargetGroups, Tables) /\ rows[tg] \in Tables
    BY <1>0, <1>6, SyncShape DEF Fetch
  <2>2. Put(sync.rows, tg, rows[tg]) \in Partial(TargetGroups, Tables)  BY <2>1, PutPartial
  <2>3. CASE sync' = [sync EXCEPT !.tgs = sync.tgs \ {tg}, !.rows = Put(sync.rows, tg, rows[tg])]
    BY <1>5, <2>1, <2>2, <2>3
  <2>4. CASE sync' = [sync EXCEPT !.tgs = sync.tgs \ {tg}]
    <3>1. sync \in [pc : {"fetch"}, tgs : SUBSET TargetGroups, rows : Partial(TargetGroups, Tables)]
      BY <1>0, <2>1 DEF Syncs
    <3> QED  BY <2>1, <2>4, <3>1 DEF Syncs
  <2> QED  BY <1>6, <2>3, <2>4 DEF Fetch
<1>7. ASSUME NEW tg \in TargetGroups, ApplyFetched(tg) PROVE sync' \in Syncs
  <2>1. sync.pc = "fetch" /\ sync' = [sync EXCEPT !.rows = Without(sync.rows, {tg})]
    BY <1>7 DEF ApplyFetched
  <2>2. sync \in [pc : {"fetch"}, tgs : SUBSET TargetGroups, rows : Partial(TargetGroups, Tables)]
    BY <1>0, <2>1 DEF Syncs
  <2>3. sync.rows \in Partial(TargetGroups, Tables)  BY <2>2
  <2>4. Without(sync.rows, {tg}) \in Partial(TargetGroups, Tables)  BY <2>3, WithoutPartial
  <2> QED  BY <2>1, <2>2, <2>4 DEF Syncs
<1>8. CASE Restart  BY <1>0, <1>8, SyncMade DEF Restart
<1>9. CASE \E tg \in TargetGroups : WatchForTargetGroup(tg) \/ StopWatch(tg)
  BY <1>1, <1>9 DEF WatchForTargetGroup, StopWatch
<1>10. CASE \E tg \in TargetGroups, e \in Endpoints : ChangeRow(tg, e)  BY <1>1, <1>10 DEF ChangeRow
<1>11. CASE StopWatchStatuses \/ TriggerReconciliation \/ TakeTask \/ UNCHANGED vars
  BY <1>1, <1>11 DEF StopWatchStatuses, TriggerReconciliation, TakeTask, vars
<1>12. CASE Reading
  BY <1>1, <1>12 DEF Reading, JoinTopic, FetchMessage, HandleMessage, CommitMessage
<1>13. CASE Working
  BY <1>1, <1>13 DEF Working, StartTask, ReadStatus, ApplyStatuses
<1> QED  BY <1>2, <1>3, <1>4, <1>6, <1>7, <1>8, <1>9, <1>10, <1>11, <1>12, <1>13 DEF Next, Syncing

LEMMA ReaderNext ==
  ASSUME TypeInv, [Next]_vars
  PROVE  ReaderInv'
<1> DEFINE n == Len(topic)
<1>0. /\ reader \in Readers /\ -1 <= reader.pos /\ reader.pos <= n /\ -1 <= reader.committed /\ reader.committed <= n
      /\ reader.pc = "apply" => reader.pos >= 1
      /\ n \in Nat /\ Len(topic') \in Nat /\ n <= Len(topic')
      /\ reader.pos \in Int /\ reader.committed \in Int
  BY ServiceNext DEF TypeInv, ServiceInv, ReaderInv, Readers
<1> HIDE DEF n
<1>1. ASSUME NEW p \in -1 .. n, NEW k \in -1 .. n, NEW pc \in {"idle", "apply", "commit"}, pc = "apply" => p >= 1,
             reader' = [pos |-> p, committed |-> k, pc |-> pc]
      PROVE  ReaderInv'
  <2>1. reader' \in Readers /\ reader'.pos = p /\ reader'.committed = k /\ reader'.pc = pc  BY <1>1 DEF Readers
  <2>2. -1 <= p /\ p <= Len(topic') /\ -1 <= k /\ k <= Len(topic')  BY <1>0
  <2> QED  BY <1>1, <2>1, <2>2 DEF ReaderInv
<1>2. /\ reader.pos \in -1 .. n /\ reader.committed \in -1 .. n /\ n \in -1 .. n
      /\ reader.pc \in {"idle", "apply", "commit"}
      /\ reader = [pos |-> reader.pos, committed |-> reader.committed, pc |-> reader.pc]
  BY <1>0 DEF Readers
<1>3. CASE UNCHANGED reader  BY <1>0, <1>1, <1>2, <1>3
<1>4. CASE JoinTopic
  <2> DEFINE p == IF reader.committed = -1 THEN n ELSE reader.committed
  <2>1. reader' = [reader EXCEPT !.pos = p] /\ reader.pos = -1  BY <1>4 DEF JoinTopic, n
  <2>2. reader' = [pos |-> p, committed |-> reader.committed, pc |-> reader.pc]  BY <1>2, <2>1
  <2>3. p \in -1 .. n /\ reader.pc # "apply"  BY <1>0, <1>2, <2>1
  <2> HIDE DEF p
  <2> QED  BY <1>1, <1>2, <2>2, <2>3
<1>5. CASE FetchMessage
  <2>1. PICK pc \in {"idle", "apply"} : reader' = [reader EXCEPT !.pos = reader.pos + 1, !.pc = pc]
    BY <1>5 DEF FetchMessage
  <2>2. reader.pos # -1 /\ reader.pos < n  BY <1>5 DEF FetchMessage, n
  <2>3. reader.pos + 1 \in -1 .. n /\ reader.pos + 1 >= 1  BY <1>0, <2>2
  <2>4. reader' = [pos |-> reader.pos + 1, committed |-> reader.committed, pc |-> pc]  BY <1>2, <2>1
  <2> QED  BY <1>1, <1>2, <2>3, <2>4
<1>6. CASE HandleMessage
  <2>1. reader' = [reader EXCEPT !.pc = "commit"]  BY <1>6 DEF HandleMessage
  <2>2. reader' = [pos |-> reader.pos, committed |-> reader.committed, pc |-> "commit"]  BY <1>2, <2>1
  <2> QED  BY <1>1, <1>2, <2>2
<1>7. CASE CommitMessage
  <2>1. \/ reader' = [reader EXCEPT !.pc = "idle", !.committed = reader.pos]
        \/ reader' = [reader EXCEPT !.pc = "idle"]
    BY <1>7 DEF CommitMessage
  <2>2. \/ reader' = [pos |-> reader.pos, committed |-> reader.pos, pc |-> "idle"]
        \/ reader' = [pos |-> reader.pos, committed |-> reader.committed, pc |-> "idle"]
    BY <1>2, <2>1
  <2> QED  BY <1>1, <1>2, <2>2
<1>8. CASE Restart
  <2>1. reader' = [NoReader EXCEPT !.committed = reader.committed]  BY <1>8 DEF Restart
  <2>2. reader' = [pos |-> -1, committed |-> reader.committed, pc |-> "idle"]  BY <2>1 DEF NoReader
  <2>3. -1 \in -1 .. n  BY <1>0
  <2> QED  BY <1>1, <1>2, <2>2, <2>3
<1>9. CASE \E tg \in TargetGroups : WatchForTargetGroup(tg) \/ StopWatch(tg)
  BY <1>3, <1>9 DEF WatchForTargetGroup, StopWatch
<1>10. CASE \E tg \in TargetGroups, e \in Endpoints : ChangeRow(tg, e)  BY <1>3, <1>10 DEF ChangeRow
<1>11. CASE StopWatchStatuses \/ TriggerReconciliation \/ TakeTask \/ UNCHANGED vars
  BY <1>3, <1>11 DEF StopWatchStatuses, TriggerReconciliation, TakeTask, vars
<1>12. CASE Syncing
  BY <1>3, <1>12 DEF Syncing, CollectWatched, EnterSync, FinishSync, Fetch, ApplyFetched
<1>13. CASE Working
  BY <1>3, <1>13 DEF Working, StartTask, ReadStatus, ApplyStatuses
<1> QED  BY <1>4, <1>5, <1>6, <1>7, <1>8, <1>9, <1>10, <1>11, <1>12, <1>13 DEF Next, Reading

LEMMA SetsNext ==
  ASSUME TypeInv, [Next]_vars
  PROVE  SetsInv'
<1>0. /\ desired \subseteq TargetGroups /\ watched \subseteq TargetGroups /\ stopping \subseteq TargetGroups
      /\ guard \in {Free, "sync", "reader"} /\ missed \in BOOLEAN
      /\ tasks \in Nat /\ tasks <= TaskChanCap /\ TaskChanCap \in Nat
  BY StatusesAssumption DEF TypeInv, SetsInv
<1>1. ASSUME desired' \subseteq TargetGroups, watched' \subseteq TargetGroups, stopping' \subseteq TargetGroups,
             guard' \in {Free, "sync", "reader"}, missed' \in BOOLEAN, UNCHANGED tasks
      PROVE  SetsInv'
  BY <1>0, <1>1 DEF SetsInv
<1>2. ASSUME NEW tg \in TargetGroups, WatchForTargetGroup(tg) \/ StopWatch(tg) PROVE SetsInv'
  BY <1>0, <1>1, <1>2 DEF WatchForTargetGroup, StopWatch
<1>3. ASSUME NEW tg \in TargetGroups, NEW e \in Endpoints, ChangeRow(tg, e) PROVE SetsInv'
  BY <1>0, <1>1, <1>3 DEF ChangeRow
<1>4. CASE StopWatchStatuses  BY <1>0, <1>1, <1>4 DEF StopWatchStatuses
<1>5. CASE TriggerReconciliation
  <2>1. /\ tasks < TaskChanCap /\ tasks' = tasks + 1 /\ guard' = Free /\ UNCHANGED <<desired, watched, stopping, missed>>
    BY <1>5 DEF TriggerReconciliation, HasRoom
  <2>2. tasks' \in Nat /\ tasks' <= TaskChanCap  BY <1>0, <2>1
  <2> QED  BY <1>0, <2>1, <2>2 DEF SetsInv
<1>6. CASE TakeTask
  <2>1. tasks > 0 /\ tasks' = tasks - 1 /\ UNCHANGED <<desired, watched, stopping, missed, guard>>
    BY <1>6 DEF TakeTask
  <2>2. tasks' \in Nat /\ tasks' <= TaskChanCap  BY <1>0, <2>1
  <2> QED  BY <1>0, <2>1, <2>2 DEF SetsInv
<1>7. CASE CollectWatched \/ FinishSync  BY <1>0, <1>1, <1>7 DEF CollectWatched, FinishSync
<1>8. CASE EnterSync
  <2>1. sync.tgs \subseteq TargetGroups  BY SyncShape DEF TypeInv
  <2> QED  BY <1>0, <1>1, <1>8, <2>1 DEF EnterSync
<1>9. ASSUME NEW tg \in TargetGroups, Fetch(tg) PROVE SetsInv'  BY <1>0, <1>1, <1>9 DEF Fetch
<1>10. ASSUME NEW tg \in TargetGroups, ApplyFetched(tg) PROVE SetsInv'
  <2>1. guard' \in {"sync", Free} /\ UNCHANGED <<desired, watched, stopping, missed, tasks>>
    BY <1>10 DEF ApplyFetched, UpdateEndpointStatuses
  <2> QED  BY <1>0, <1>1, <2>1
<1>11. CASE HandleMessage
  <2>1. guard' \in {"reader", Free} /\ UNCHANGED <<desired, watched, stopping, missed, tasks>>
    BY <1>11 DEF HandleMessage, UpdateEndpointStatuses, RemoveEndpoint
  <2> QED  BY <1>0, <1>1, <2>1
<1>12. CASE JoinTopic \/ FetchMessage \/ CommitMessage
  BY <1>0, <1>1, <1>12 DEF JoinTopic, FetchMessage, CommitMessage
<1>13. CASE Working  BY <1>0, <1>1, <1>13 DEF Working, StartTask, ReadStatus, ApplyStatuses
<1>14. CASE Restart
  <2>1. tasks' = 0 /\ guard' = Free /\ watched' = desired /\ stopping' = {} /\ UNCHANGED <<desired, missed>>
    BY <1>14 DEF Restart
  <2> QED  BY <1>0, <2>1 DEF SetsInv
<1>15. CASE UNCHANGED vars  BY <1>0, <1>1, <1>15 DEF vars
<1> QED  BY <1>2, <1>3, <1>4, <1>5, <1>6, <1>7, <1>8, <1>9, <1>10, <1>11, <1>12, <1>13, <1>14, <1>15
         DEF Next, Syncing, Reading

LEMMA TaskShape ==
  ASSUME WorkerInv
  PROVE  /\ worker.pc \in {"idle", "read"}
         /\ worker.pc = "read" => worker \in Tasks
         /\ worker.pc = "read" => /\ worker.tg \in TargetGroups /\ worker.gen \in Seq(Nat)
                                  /\ worker.left \subseteq Endpoints /\ worker.up \subseteq Endpoints
                                  /\ AppliedGeneration(worker) \in Nat
<1>1. worker \in {IdleWorker} \cup Tasks  BY DEF WorkerInv
<1>2. worker.pc \in {"idle", "read"} /\ (worker.pc = "read" => worker \in Tasks)  BY <1>1 DEF IdleWorker, Tasks
<1>3. worker.pc = "read" => /\ worker.tg \in TargetGroups /\ worker.gen \in Seq(Nat)
                            /\ worker.left \subseteq Endpoints /\ worker.up \subseteq Endpoints
  BY <1>2 DEF Tasks
<1>4. ASSUME NEW g \in Seq(Nat), g # <<>> PROVE g[1] \in Nat  BY <1>4
<1> QED  BY <1>2, <1>3, <1>4 DEF AppliedGeneration

LEMMA GenInNat ==
  ASSUME StatusesInv, NEW tg
  PROVE  GenIn(statuses, tg) \in Nat
  BY CellFields DEF StatusesInv, GenIn

LEMMA GenRead ==
  ASSUME StatusesInv, NEW tg
  PROVE  /\ Gen(tg) \in Seq(Nat)
         /\ (IF Gen(tg) = <<>> THEN 0 ELSE Gen(tg)[1]) = GenIn(statuses, tg)
         /\ \A n : Gen(tg) = <<n>> => GenIn(statuses, tg) = n
<1>1. CASE tg \in DOMAIN statuses
  <2>1. Gen(tg) = <<statuses[tg].gen>> /\ GenIn(statuses, tg) = statuses[tg].gen /\ statuses[tg].gen \in Nat
    BY <1>1, CellFields DEF StatusesInv, Gen, GenIn
  <2> QED  BY <2>1
<1>2. CASE tg \notin DOMAIN statuses
  <2>1. Gen(tg) = <<>> /\ GenIn(statuses, tg) = 0  BY <1>2 DEF Gen, GenIn
  <2> QED  BY <2>1
<1> QED  BY <1>1, <1>2

LEMMA WorkerNext ==
  ASSUME TypeInv, [Next]_vars
  PROVE  WorkerInv'
<1>0. WorkerInv /\ StatusesInv  BY DEF TypeInv
<1>1. ASSUME UNCHANGED workerVars PROVE WorkerInv'  BY <1>0, <1>1 DEF WorkerInv, workerVars
<1>2. ASSUME NEW tg \in TargetGroups, StartTask(tg) PROVE WorkerInv'
  <2>1. CASE worker' = [pc |-> "read", tg |-> tg, gen |-> Gen(tg), left |-> Endpoints, up |-> {}] /\ applied' = applied
    <3>1. worker' \in Tasks  BY <1>0, <2>1, GenRead DEF Tasks
    <3> QED  BY <1>0, <1>2, <2>1, <3>1 DEF StartTask, WorkerInv
  <2>2. CASE applied' = Without(applied, {tg}) /\ worker' = worker
    <3>1. applied' \in Partial(TargetGroups, SUBSET Endpoints)  BY <1>0, <2>2, WithoutPartial DEF WorkerInv
    <3> QED  BY <1>0, <1>2, <2>2, <3>1 DEF StartTask, WorkerInv
  <2> QED  BY <1>2, <2>1, <2>2 DEF StartTask
<1>3. ASSUME NEW e \in Endpoints, ReadStatus(e) PROVE WorkerInv'
  <2>1. worker \in Tasks  BY <1>0, <1>3, TaskShape DEF ReadStatus
  <2>2. worker' = [worker EXCEPT !.left = worker.left \ {e},
                                 !.up = IF Healthy(worker.tg, e) THEN worker.up \cup {e} ELSE worker.up]
    BY <1>3 DEF ReadStatus
  <2>3. worker' \in Tasks  BY <2>1, <2>2 DEF Tasks
  <2> QED  BY <1>0, <1>3, <2>3 DEF ReadStatus, WorkerInv
<1>4. CASE ApplyStatuses
  <2>1. /\ worker.tg \in TargetGroups /\ worker.up \in SUBSET Endpoints /\ AppliedGeneration(worker) \in Nat
    BY <1>0, <1>4, TaskShape DEF ApplyStatuses
  <2>2. applied' \in Partial(TargetGroups, SUBSET Endpoints)
    BY <1>0, <1>4, <2>1, PutPartial DEF ApplyStatuses, WorkerInv
  <2>3. cachedGen' \in Partial(TargetGroups, Nat)
    BY <1>0, <1>4, <2>1, PutPartial DEF ApplyStatuses, WorkerInv
  <2> QED  BY <1>4, <2>2, <2>3 DEF ApplyStatuses, WorkerInv
<1>5. CASE Restart
  <2>1. Empty \in Partial(TargetGroups, SUBSET Endpoints) /\ Empty \in Partial(TargetGroups, Nat)  BY EmptyPartial
  <2> QED  BY <1>5, <2>1 DEF Restart, WorkerInv
<1>6. CASE \E tg \in TargetGroups : WatchForTargetGroup(tg) \/ StopWatch(tg)
  BY <1>1, <1>6 DEF WatchForTargetGroup, StopWatch
<1>7. CASE \E tg \in TargetGroups, e \in Endpoints : ChangeRow(tg, e)  BY <1>1, <1>7 DEF ChangeRow
<1>8. CASE StopWatchStatuses \/ TriggerReconciliation \/ TakeTask \/ UNCHANGED vars
  BY <1>1, <1>8 DEF StopWatchStatuses, TriggerReconciliation, TakeTask, vars
<1>9. CASE Syncing
  BY <1>1, <1>9 DEF Syncing, CollectWatched, EnterSync, FinishSync, Fetch, ApplyFetched
<1>10. CASE Reading
  BY <1>1, <1>10 DEF Reading, JoinTopic, FetchMessage, HandleMessage, CommitMessage
<1> QED  BY <1>2, <1>3, <1>4, <1>5, <1>6, <1>7, <1>8, <1>9, <1>10 DEF Next, Working

LEMMA TypeInit == Init => TypeInv
<1> SUFFICES ASSUME Init PROVE TypeInv
  OBVIOUS
<1>1. ServiceInv
  <2>1. [e \in Endpoints |-> [up |-> TRUE, at |-> 0]] \in [Endpoints -> Status]  BY DEF Status
  <2>2. [e \in Endpoints |-> [up |-> TRUE, at |-> 0]] \in Tables  BY <2>1, MakePartial DEF Tables
  <2> QED  BY <2>2 DEF Init, ServiceInv
<1>2. SetsInv
  <2>1. /\ desired = {} /\ watched = {} /\ stopping = {} /\ guard = Free /\ tasks = 0 /\ missed = FALSE
    BY DEF Init
  <2>2. tasks \in Nat /\ tasks <= TaskChanCap
    <3>1. TaskChanCap \in Nat  BY StatusesAssumption
    <3> QED  BY <2>1, <3>1
  <2>3. missed \in BOOLEAN  BY <2>1
  <2> QED  BY <2>1, <2>2, <2>3 DEF SetsInv
<1>3. sync \in Syncs
  <2>1. sync = [pc |-> "idle", tgs |-> {}]  BY DEF Init, NoSync
  <2> QED  BY <2>1, SyncMade
<1>4. ReaderInv
  <2>1. reader = [pos |-> -1, committed |-> -1, pc |-> "idle"] /\ topic = <<>>  BY DEF Init, NoReader
  <2>2. reader \in Readers /\ reader.pos = -1 /\ reader.committed = -1 /\ reader.pc = "idle" /\ Len(topic) = 0
    BY <2>1 DEF Readers
  <2> QED  BY <2>2 DEF ReaderInv
<1>5. StatusesInv /\ WorkerInv
  <2>1. /\ Empty \in Partial(TargetGroups, SUBSET Endpoints) /\ Empty \in Partial(TargetGroups, Nat)
        /\ Empty \in Partial(TargetGroups, Cells)
    BY EmptyPartial
  <2> QED  BY <2>1 DEF Init, StatusesInv, WorkerInv
<1> QED  BY <1>1, <1>2, <1>3, <1>4, <1>5 DEF TypeInv

LEMMA TypeNext == TypeInv /\ [Next]_vars => TypeInv'
<1> SUFFICES ASSUME TypeInv, [Next]_vars PROVE TypeInv'
  OBVIOUS
<1>1. ServiceInv' /\ SetsInv'  BY ServiceNext, SetsNext
<1>2. sync' \in Syncs /\ ReaderInv'  BY SyncNext, ReaderNext
<1>3. StatusesInv' /\ WorkerInv'  BY StatusesSteps, WorkerNext
<1> QED  BY <1>1, <1>2, <1>3 DEF TypeInv

-----------------------------------------------------------------------------
(* What a worker has applied or read, and the statuses.                    *)
LEMMA AdvanceKeeps ==
  ASSUME StatusesInv, StatusesInv', NEW tg, Advances(statuses, statuses', tg), NEW g \in Nat, NEW up,
         g <= GenIn(statuses, tg), g = GenIn(statuses, tg) => up = UpIn(statuses, tg)
  PROVE  g <= GenIn(statuses', tg) /\ (g = GenIn(statuses', tg) => up = UpIn(statuses', tg))
<1>1. GenIn(statuses, tg) \in Nat  BY GenInNat
<1>2. GenIn(statuses', tg) \in Nat
  <2>1. tg \in DOMAIN statuses' => statuses'[tg].gen \in Nat  BY CellFields DEF StatusesInv
  <2> QED  BY <2>1 DEF GenIn
<1>3. CASE GenIn(statuses', tg) > GenIn(statuses, tg)  BY <1>1, <1>2, <1>3
<1>4. CASE GenIn(statuses', tg) = GenIn(statuses, tg) /\ UpIn(statuses', tg) = UpIn(statuses, tg)  BY <1>4
<1> QED  BY <1>3, <1>4 DEF Advances

(* A step that changes nothing but statuses that advance, and the target   *)
(* groups that stay.                                                       *)
LEMMA WorkKept ==
  ASSUME TypeInv, StatusesInv', WorkInv, UNCHANGED workerVars, missed' = missed, desired' \subseteq desired,
         \A u \in desired' : Advances(statuses, statuses', u)
  PROVE  WorkInv'
<1> SUFFICES ASSUME ~missed, NEW tg \in desired'
             PROVE  /\ tg \in DOMAIN applied' /\ ~Reads(tg)' => AppliedInv(tg)'
                    /\ Reads(tg)' => ReadInv(tg)'
  BY DEF WorkInv
<1>0. /\ StatusesInv /\ WorkerInv /\ Advances(statuses, statuses', tg)
      /\ worker' = worker /\ applied' = applied /\ cachedGen' = cachedGen
  BY DEF TypeInv, workerVars
<1>1. /\ tg \in DOMAIN applied /\ ~Reads(tg) => AppliedInv(tg)
      /\ Reads(tg) => ReadInv(tg)
  BY DEF WorkInv
<1>2. ASSUME AppliedInv(tg) PROVE AppliedInv(tg)'
  <2>1. cachedGen[tg] \in Nat  BY <1>0, <1>2, PartialFunction DEF AppliedInv, WorkerInv
  <2>2. /\ cachedGen[tg] <= GenIn(statuses', tg)
        /\ cachedGen[tg] = GenIn(statuses', tg) => applied[tg] = UpIn(statuses', tg)
    BY <1>0, <1>2, <2>1, AdvanceKeeps DEF AppliedInv
  <2> QED  BY <1>0, <1>2, <2>2 DEF AppliedInv
<1>3. ASSUME Reads(tg), ReadInv(tg) PROVE ReadInv(tg)'
  <2> DEFINE g == AppliedGeneration(worker)
  <2>1. g \in Nat  BY <1>0, <1>3, TaskShape DEF Reads
  <2>2. g <= GenIn(statuses, tg) /\ (g = GenIn(statuses, tg) => worker.up = UpIn(statuses, tg) \ worker.left)
    BY <1>3 DEF ReadInv
  <2> HIDE DEF g
  <2>3. g <= GenIn(statuses', tg) /\ (g = GenIn(statuses', tg) => UpIn(statuses, tg) = UpIn(statuses', tg))
    BY <1>0, <2>1, <2>2, AdvanceKeeps
  <2>4. g = GenIn(statuses', tg) => g = GenIn(statuses, tg)
    <3>1. GenIn(statuses, tg) \in Nat /\ (GenIn(statuses', tg) > GenIn(statuses, tg) \/ GenIn(statuses', tg) = GenIn(statuses, tg))
      BY <1>0, GenInNat DEF Advances
    <3> QED  BY <2>1, <2>2, <3>1
  <2>5. g = GenIn(statuses', tg) => worker.up = UpIn(statuses', tg) \ worker.left  BY <2>2, <2>3, <2>4
  <2> QED  BY <1>0, <2>3, <2>5 DEF ReadInv, AppliedGeneration, g
<1> QED  BY <1>0, <1>1, <1>2, <1>3 DEF Reads

LEMMA WorkWatch ==
  ASSUME WorkInv, NEW t \in TargetGroups, WatchForTargetGroup(t)
  PROVE  WorkInv'
<1>1. /\ desired' = desired \cup {t} /\ UNCHANGED <<statuses, worker, applied, cachedGen>>
      /\ missed' = (missed \/ t \in DOMAIN applied \/ Reads(t))
  BY DEF WatchForTargetGroup, workerVars, Reads
<1> SUFFICES ASSUME ~missed', NEW tg \in desired'
             PROVE  /\ tg \in DOMAIN applied' /\ ~Reads(tg)' => AppliedInv(tg)'
                    /\ Reads(tg)' => ReadInv(tg)'
  BY DEF WorkInv
<1>2. ~missed /\ t \notin DOMAIN applied /\ ~Reads(t)  BY <1>1
<1>3. CASE tg = t  BY <1>1, <1>2, <1>3 DEF Reads
<1>4. CASE tg \in desired
  BY <1>1, <1>2, <1>4 DEF WorkInv, Reads, AppliedInv, ReadInv, AppliedGeneration
<1> QED  BY <1>1, <1>3, <1>4

(* The worker takes the generation before it reads a status.               *)
LEMMA WorkStart ==
  ASSUME TypeInv, WorkInv, NEW t \in TargetGroups, StartTask(t)
  PROVE  WorkInv'
<1>0. StatusesInv /\ WorkerInv  BY DEF TypeInv
<1>1. worker.pc = "idle" /\ UNCHANGED <<statuses, desired, missed, cachedGen>>  BY DEF StartTask
<1> SUFFICES ASSUME ~missed, NEW tg \in desired
             PROVE  /\ tg \in DOMAIN applied' /\ ~Reads(tg)' => AppliedInv(tg)'
                    /\ Reads(tg)' => ReadInv(tg)'
  BY <1>1 DEF WorkInv
<1>2. tg \in DOMAIN applied => AppliedInv(tg)  BY <1>1 DEF WorkInv, Reads
<1>3. CASE worker' = [pc |-> "read", tg |-> t, gen |-> Gen(t), left |-> Endpoints, up |-> {}] /\ applied' = applied
  <2>1. worker'.tg = t /\ worker'.gen = Gen(t) /\ worker'.left = Endpoints /\ worker'.up = {} /\ worker'.pc = "read"
    BY <1>3
  <2>2. AppliedGeneration(worker') = GenIn(statuses, t)  BY <1>0, <2>1, GenRead DEF AppliedGeneration
  <2>3. GenIn(statuses, t) <= GenIn(statuses, t)
    <3>1. GenIn(statuses, t) \in Nat  BY <1>0, GenInNat
    <3> QED  BY <3>1
  <2>4. UpIn(statuses, t) \ Endpoints = {}  BY DEF UpIn
  <2>5. CASE tg = t
    <3>1. ReadInv(tg)'  BY <1>1, <2>1, <2>2, <2>3, <2>4, <2>5 DEF ReadInv
    <3>2. Reads(tg)'  BY <2>1, <2>5 DEF Reads
    <3> QED  BY <3>1, <3>2
  <2>6. CASE tg # t
    <3>1. ~Reads(tg)'  BY <2>1, <2>6 DEF Reads
    <3>2. AppliedInv(tg) => AppliedInv(tg)'  BY <1>1, <1>3 DEF AppliedInv
    <3> QED  BY <1>2, <1>3, <3>1, <3>2
  <2> QED  BY <2>5, <2>6
<1>4. CASE t \notin desired /\ applied' = Without(applied, {t}) /\ worker' = worker
  <2>1. tg # t /\ ~Reads(tg)'  BY <1>1, <1>4 DEF Reads
  <2>2. tg \in DOMAIN applied' => tg \in DOMAIN applied /\ applied'[tg] = applied[tg]
    BY <1>4, <2>1 DEF Without, Restrict
  <2> QED  BY <1>1, <1>2, <2>1, <2>2 DEF AppliedInv
<1> QED  BY <1>3, <1>4 DEF StartTask

LEMMA WorkRead ==
  ASSUME TypeInv, WorkInv, NEW e \in Endpoints, ReadStatus(e)
  PROVE  WorkInv'
<1>0. StatusesInv /\ WorkerInv  BY DEF TypeInv
<1>1. worker.pc = "read" /\ e \in worker.left /\ UNCHANGED <<statuses, desired, missed, applied, cachedGen>>
  BY DEF ReadStatus
<1>2. worker \in Tasks  BY <1>0, <1>1, TaskShape
<1>3. /\ worker'.pc = "read" /\ worker'.tg = worker.tg /\ worker'.gen = worker.gen /\ worker'.left = worker.left \ {e}
      /\ worker'.up = IF Healthy(worker.tg, e) THEN worker.up \cup {e} ELSE worker.up
  BY <1>1, <1>2 DEF ReadStatus, Tasks
<1> SUFFICES ASSUME ~missed, NEW tg \in desired
             PROVE  /\ tg \in DOMAIN applied' /\ ~Reads(tg)' => AppliedInv(tg)'
                    /\ Reads(tg)' => ReadInv(tg)'
  BY <1>1 DEF WorkInv
<1>4. /\ tg \in DOMAIN applied /\ ~Reads(tg) => AppliedInv(tg)
      /\ Reads(tg) => ReadInv(tg)
  BY DEF WorkInv
<1>5. Reads(tg)' <=> Reads(tg)  BY <1>1, <1>3 DEF Reads
<1>6. AppliedInv(tg) => AppliedInv(tg)'  BY <1>1 DEF AppliedInv
<1>7. ASSUME Reads(tg), ReadInv(tg) PROVE ReadInv(tg)'
  <2>1. AppliedGeneration(worker') = AppliedGeneration(worker)  BY <1>3 DEF AppliedGeneration
  <2>2. worker.tg = tg  BY <1>7 DEF Reads
  <2>3. e \in UpIn(statuses, tg) <=> Healthy(tg, e)  BY DEF UpIn, Healthy
  <2>4. worker.up = UpIn(statuses, tg) \ worker.left => worker'.up = UpIn(statuses, tg) \ worker'.left
    BY <1>1, <1>3, <2>2, <2>3
  <2> QED  BY <1>1, <1>7, <2>1, <2>4 DEF ReadInv
<1> QED  BY <1>1, <1>4, <1>5, <1>6, <1>7

LEMMA WorkApply ==
  ASSUME TypeInv, WorkInv, ApplyStatuses
  PROVE  WorkInv'
<1>0. StatusesInv /\ WorkerInv  BY DEF TypeInv
<1>1. /\ worker.pc = "read" /\ worker.left = {} /\ worker' = IdleWorker /\ UNCHANGED <<statuses, desired, missed>>
      /\ applied' = Put(applied, worker.tg, worker.up)
      /\ cachedGen' = Put(cachedGen, worker.tg, AppliedGeneration(worker))
  BY DEF ApplyStatuses
<1> SUFFICES ASSUME ~missed, NEW tg \in desired
             PROVE  /\ tg \in DOMAIN applied' /\ ~Reads(tg)' => AppliedInv(tg)'
                    /\ Reads(tg)' => ReadInv(tg)'
  BY <1>1 DEF WorkInv
<1>2. /\ tg \in DOMAIN applied /\ ~Reads(tg) => AppliedInv(tg)
      /\ Reads(tg) => ReadInv(tg)
  BY DEF WorkInv
<1>3. ~Reads(tg)'  BY <1>1 DEF Reads, IdleWorker
<1>4. CASE tg = worker.tg
  <2>1. ReadInv(tg)  BY <1>1, <1>2, <1>4 DEF Reads
  <2>2. tg \in DOMAIN cachedGen' /\ cachedGen'[tg] = AppliedGeneration(worker) /\ applied'[tg] = worker.up
    BY <1>1, <1>4 DEF Put
  <2> QED  BY <1>1, <1>3, <2>1, <2>2 DEF AppliedInv, ReadInv
<1>5. CASE tg # worker.tg
  <2>1. ~Reads(tg)  BY <1>5 DEF Reads
  <2>2. tg \in DOMAIN applied' <=> tg \in DOMAIN applied  BY <1>1, <1>5 DEF Put
  <2>3. /\ tg \in DOMAIN applied => applied'[tg] = applied[tg]
        /\ tg \in DOMAIN cachedGen => tg \in DOMAIN cachedGen' /\ cachedGen'[tg] = cachedGen[tg]
    BY <1>1, <1>5 DEF Put
  <2> QED  BY <1>1, <1>2, <1>3, <2>1, <2>2, <2>3 DEF AppliedInv
<1> QED  BY <1>4, <1>5

LEMMA WorkNext ==
  ASSUME TypeInv, WorkInv, [Next]_vars
  PROVE  WorkInv'
<1>0. StatusesInv' /\ desired \subseteq TargetGroups  BY StatusesSteps DEF TypeInv, SetsInv
<1>1. CASE Restart
  <2>1. worker' = IdleWorker /\ applied' = Empty  BY <1>1 DEF Restart
  <2>2. DOMAIN applied' = {}  BY <2>1, EmptyPartial
  <2>3. \A tg \in desired' : ~Reads(tg)'  BY <2>1 DEF Reads, IdleWorker
  <2> QED  BY <2>2, <2>3 DEF WorkInv
<1>2. CASE Clears
  <2>1. PICK tgs \in SUBSET TargetGroups :
          /\ statuses' = Without(statuses, tgs) /\ desired' = desired \ tgs
          /\ UNCHANGED workerVars /\ missed' = missed
    BY <1>2 DEF Clears
  <2>2. ASSUME NEW u \in desired' PROVE Advances(statuses, statuses', u)
    <3>1. u \notin tgs  BY <2>1
    <3>2. /\ u \in DOMAIN statuses' <=> u \in DOMAIN statuses
          /\ u \in DOMAIN statuses => statuses'[u] = statuses[u]
      BY <2>1, <3>1 DEF Without, Restrict
    <3> QED  BY <3>2 DEF Advances, GenIn, UpIn
  <2> QED  BY <1>0, <2>1, <2>2, WorkKept
<1>3. CASE \A u \in TargetGroups : Advances(statuses, statuses', u)
  <2>1. ASSUME UNCHANGED workerVars, missed' = missed, desired' = desired PROVE WorkInv'
    BY <1>0, <1>3, <2>1, WorkKept
  <2>2. ASSUME NEW tg \in TargetGroups, WatchForTargetGroup(tg) PROVE WorkInv'  BY <2>2, WorkWatch
  <2>3. ASSUME NEW tg \in TargetGroups, StopWatch(tg) PROVE WorkInv'  BY <2>1, <2>3 DEF StopWatch
  <2>4. CASE \E tg \in TargetGroups, e \in Endpoints : ChangeRow(tg, e)  BY <2>1, <2>4 DEF ChangeRow
  <2>5. CASE TriggerReconciliation \/ TakeTask \/ UNCHANGED vars
    BY <2>1, <2>5 DEF TriggerReconciliation, TakeTask, vars
  <2>6. CASE StopWatchStatuses
    <3>1. Clears  BY <2>6 DEF StopWatchStatuses, Clears, TypeInv, SetsInv
    <3> QED  BY <1>2, <3>1
  <2>7. CASE Syncing
    BY <2>1, <2>7 DEF Syncing, CollectWatched, EnterSync, FinishSync, Fetch, ApplyFetched
  <2>8. CASE Reading
    BY <2>1, <2>8 DEF Reading, JoinTopic, FetchMessage, HandleMessage, CommitMessage
  <2>9. CASE Working  BY <2>9, WorkStart, WorkRead, WorkApply DEF Working
  <2> QED  BY <1>1, <2>2, <2>3, <2>4, <2>5, <2>6, <2>7, <2>8, <2>9 DEF Next
<1> QED  BY <1>1, <1>2, <1>3, StatusesSteps

-----------------------------------------------------------------------------
LEMMA StatusesAlways == Spec => [](TypeInv /\ WorkInv)
<1>1. Init => WorkInv
  <2> SUFFICES ASSUME Init PROVE WorkInv
    OBVIOUS
  <2>1. desired = {}  BY DEF Init
  <2> QED  BY <2>1 DEF WorkInv
<1>2. (TypeInv /\ WorkInv) /\ [Next]_vars => (TypeInv /\ WorkInv)'  BY TypeNext, WorkNext
<1> QED  BY <1>1, <1>2, TypeInit, PTL DEF Spec

(* The reader stays in the topic and the tasks in their channel.           *)
THEOREM StatusesTypes == Spec => []TypeOK
<1>1. TypeInv => TypeOK
  <2> SUFFICES ASSUME TypeInv PROVE TypeOK
    OBVIOUS
  <2>1. DOMAIN statuses \subseteq TargetGroups /\ \A tg \in DOMAIN statuses : DOMAIN statuses[tg].of \subseteq Endpoints
    BY CellFields DEF TypeInv, StatusesInv
  <2>2. reader.pos \in -1 .. Len(topic) /\ reader.committed \in -1 .. Len(topic)
    <3>1. /\ reader.pos \in Int /\ reader.committed \in Int /\ Len(topic) \in Int
      BY DEF TypeInv, ReaderInv, Readers, ServiceInv
    <3> QED  BY <3>1 DEF TypeInv, ReaderInv
  <2>3. tasks \in 0 .. TaskChanCap  BY StatusesAssumption DEF TypeInv, SetsInv
  <2>4. DOMAIN applied \subseteq TargetGroups /\ DOMAIN cachedGen \subseteq TargetGroups
    BY PartialFunction DEF TypeInv, WorkerInv
  <2> QED  BY <2>1, <2>2, <2>3, <2>4 DEF TypeOK, TypeInv, SetsInv
<1> QED  BY <1>1, StatusesAlways, PTL

(* A worker that skips a target group has applied its statuses             *)
(* (worker.go:139-144, 184-204, service.go:273-276).                       *)
THEOREM SkipsWhatIsApplied == Spec => []SkippedIsApplied
<1>1. TypeInv /\ WorkInv => SkippedIsApplied
  <2> SUFFICES ASSUME TypeInv, WorkInv, NEW tg \in desired, tg \in DOMAIN applied, tg \in DOMAIN cachedGen,
                      ~missed, Gen(tg) = <<cachedGen[tg]>>, worker.pc = "idle" \/ worker.tg # tg
               PROVE  applied[tg] = {e \in Endpoints : Healthy(tg, e)}
    BY DEF SkippedIsApplied
  <2>1. AppliedInv(tg)  BY DEF WorkInv, Reads
  <2>2. GenIn(statuses, tg) = cachedGen[tg]  BY GenRead DEF TypeInv
  <2>3. UpIn(statuses, tg) = {e \in Endpoints : Healthy(tg, e)}  BY DEF UpIn, Healthy
  <2> QED  BY <2>1, <2>2, <2>3 DEF AppliedInv
<1> QED  BY <1>1, StatusesAlways, PTL

(* A status never makes room for an older one (service.go:260-263).        *)
THEOREM StatusesNeverOlder == Spec => NeverOlder
<1>1. TypeInv /\ [Next]_vars =>
        [\A tg \in DOMAIN statuses \cap DOMAIN statuses' :
            \A e \in DOMAIN statuses[tg].of \cap DOMAIN statuses'[tg].of :
                statuses[tg].of[e].at <= statuses'[tg].of[e].at]_statuses
  BY StatusesSteps DEF NotOlder
<1> QED  BY <1>1, StatusesAlways, PTL DEF Spec, NeverOlder
=============================================================================
