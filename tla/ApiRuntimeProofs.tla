--------------------------- MODULE ApiRuntimeProofs ---------------------------
(***************************************************************************)
(* Proofs about etcd's changelog and the API process, for every number of  *)
(* target groups, writers, calls and faults, in four layers.               *)
(*   LogInv     what the writers keep in etcd: the timestamp key is the    *)
(*              length of the changelog (AppendOnly);                      *)
(*   SourceInv  what the watches, the fetches and the cache hold was       *)
(*              written to etcd (CacheIsWritten, EntriesComplete);         *)
(*   PollInv    a reply is not behind the versions the agent has           *)
(*              (GoesFurther);                                             *)
(*   CountInv   the versions written and the calls in progress are no more *)
(*              than the calls there were (ApiTypes).                      *)
(***************************************************************************)
EXTENDS ApiRuntime, FiniteSetTheorems, TLAPS

Calls == [pc : {"create", "read", "commit"}, kind : {"spec", "endpoint"},
          tg : TargetGroups, old : Int, left : Int]

(* The timestamp key of the endpoints is the length of the changelog, both *)
(* timestamp keys are created together, and a call that is about to commit *)
(* has seen its key.                                                       *)
LogTypes ==
    /\ specTs \in [TargetGroups -> Int]
    /\ epTs \in [TargetGroups -> Int]
    /\ changelog \in [TargetGroups -> Seq(Writers)]
    /\ writer \in [Writers -> {IdleWriter} \cup Calls]

TimestampsAgree ==
    \A tg \in TargetGroups :
        /\ specTs[tg] >= -1 /\ epTs[tg] >= -1
        /\ specTs[tg] = -1 <=> epTs[tg] = -1
        /\ Len(changelog[tg]) = IF epTs[tg] = -1 THEN 0 ELSE epTs[tg]

CallsHaveKeys ==
    \A w \in Writers :
        /\ writer[w].pc = "create" => writer[w].kind = "spec"
        /\ writer[w].pc = "commit" => /\ writer[w].old >= 0
                                      /\ epTs[writer[w].tg] >= 0

LogInv == LogTypes /\ TimestampsAgree /\ CallsHaveKeys

(* What a step keeps: etcd's changelog and versions only grow.             *)
Kept == \A tg \in TargetGroups :
            /\ specTs[tg] <= specTs'[tg]
            /\ Len(changelog[tg]) <= Len(changelog'[tg])
            /\ \A i \in 1 .. Len(changelog[tg]) : changelog'[tg][i] = changelog[tg][i]

logVars == <<etcdVars, writer>>

-----------------------------------------------------------------------------
LEMMA LogInit == Init => LogInv
  BY DEF Init, ChangelogInit, LogInv, LogTypes, TimestampsAgree, CallsHaveKeys, IdleWriter

(* A step that leaves etcd and the writers alone.                          *)
LEMMA LogUnchanged ==
  ASSUME LogInv, UNCHANGED logVars
  PROVE  LogInv' /\ Kept
  BY DEF logVars, etcdVars, LogInv, LogTypes, TimestampsAgree, CallsHaveKeys, Kept

(* A call returns and its writes, if any, were not applied.                *)
LEMMA ReturnKeeps ==
  ASSUME LogInv, NEW w \in Writers, Return(w), UNCHANGED etcdVars
  PROVE  LogInv' /\ Kept
<1>1. writer' \in [Writers -> {IdleWriter} \cup Calls]
  BY DEF LogInv, LogTypes, Return
<1>2. \A v \in Writers : writer'[v] = IF v = w THEN IdleWriter ELSE writer[v]
  BY DEF LogInv, LogTypes, Return
<1>3. CallsHaveKeys'
  BY <1>2 DEF LogInv, CallsHaveKeys, IdleWriter, etcdVars
<1> QED  BY <1>1, <1>3 DEF LogInv, LogTypes, TimestampsAgree, etcdVars, Kept

(* Creating the keys of a target group.                                    *)
LEMMA CreateKeeps ==
  ASSUME LogInv, NEW tg \in TargetGroups, CreateKeys(tg),
         \A w \in Writers : writer'[w].pc = "commit" => writer'[w] = writer[w],
         \A w \in Writers : writer'[w].pc = "create" => writer'[w] = writer[w],
         writer' \in [Writers -> {IdleWriter} \cup Calls]
  PROVE  LogInv' /\ Kept
<1>1. CASE specTs[tg] = -1
  <2>1. specTs' = [specTs EXCEPT ![tg] = 0] /\ epTs' = [epTs EXCEPT ![tg] = 0] /\ changelog' = changelog
    BY <1>1 DEF CreateKeys
  <2>2. LogTypes' /\ TimestampsAgree'
    BY <1>1, <2>1 DEF LogInv, LogTypes, TimestampsAgree
  <2>3. \A g \in TargetGroups : epTs[g] >= 0 => epTs'[g] >= 0
    BY <2>1 DEF LogInv, LogTypes
  <2>4. CallsHaveKeys'
    <3> SUFFICES ASSUME NEW w \in Writers
                 PROVE  /\ writer'[w].pc = "create" => writer'[w].kind = "spec"
                        /\ writer'[w].pc = "commit" => writer'[w].old >= 0 /\ epTs'[writer'[w].tg] >= 0
      BY DEF CallsHaveKeys
    <3>1. writer[w].pc = "commit" => writer[w].tg \in TargetGroups
      BY DEF LogInv, LogTypes, IdleWriter, Calls
    <3> QED  BY <2>3, <3>1 DEF LogInv, CallsHaveKeys
  <2>5. \A g \in TargetGroups : specTs[g] <= specTs'[g]
    BY <1>1, <2>1 DEF LogInv, LogTypes
  <2> QED  BY <2>1, <2>2, <2>4, <2>5 DEF LogInv, Kept, LogTypes
<1>2. CASE specTs[tg] # -1
  <2>1. UNCHANGED etcdVars  BY <1>2 DEF CreateKeys
  <2>2. LogTypes' /\ TimestampsAgree' /\ Kept
    BY <2>1 DEF LogInv, LogTypes, TimestampsAgree, etcdVars, Kept
  <2>3. CallsHaveKeys'
    BY <2>1 DEF LogInv, CallsHaveKeys, etcdVars
  <2> QED  BY <2>2, <2>3 DEF LogInv
<1> QED  BY <1>1, <1>2

(* A transaction whose comparison holds: the entry goes behind the last    *)
(* one, since the version compared is the length of the changelog.         *)
LEMMA PutsKeep ==
  ASSUME LogInv, NEW w \in Writers, writer[w].pc = "commit", Compare(writer[w]),
         TxnPuts(w), Return(w)
  PROVE  LogInv' /\ Kept
<1> DEFINE r == writer[w]
           ver == r.old + 1
<1>0. r \in Calls
  BY DEF LogInv, LogTypes, IdleWriter
<1>1. r.tg \in TargetGroups /\ r.old \in Int /\ r.old >= 0 /\ epTs[r.tg] >= 0
  BY <1>0 DEF LogInv, CallsHaveKeys, Calls
<1>2. \A v \in Writers : writer'[v] = IF v = w THEN IdleWriter ELSE writer[v]
  BY DEF LogInv, LogTypes, Return
<1>3. writer' \in [Writers -> {IdleWriter} \cup Calls]
  BY DEF LogInv, LogTypes, Return
<1>4. specTs[r.tg] >= 0 /\ Len(changelog[r.tg]) = epTs[r.tg]
  BY <1>1 DEF LogInv, LogTypes, TimestampsAgree
<1>5. CASE r.kind = "spec"
  <2>1. specTs' = [specTs EXCEPT ![r.tg] = ver] /\ epTs' = epTs /\ changelog' = changelog
    BY <1>5 DEF TxnPuts
  <2>2. LogTypes' /\ TimestampsAgree'
    BY <1>1, <1>3, <1>4, <2>1 DEF LogInv, LogTypes, TimestampsAgree
  <2>3. CallsHaveKeys'
    BY <1>2, <2>1 DEF LogInv, CallsHaveKeys, IdleWriter
  <2>4. specTs[r.tg] = r.old
    BY <1>5 DEF Compare, Timestamp
  <2>5. \A g \in TargetGroups : specTs[g] <= specTs'[g]
    BY <1>1, <2>1, <2>4 DEF LogInv, LogTypes
  <2> QED  BY <2>1, <2>2, <2>3, <2>5 DEF LogInv, Kept, LogTypes
<1>6. CASE r.kind = "endpoint"
  <2>1. /\ epTs' = [epTs EXCEPT ![r.tg] = ver] /\ specTs' = specTs
        /\ changelog' = [changelog EXCEPT ![r.tg] = PutEntry(@, ver, w)]
    BY <1>6 DEF TxnPuts
  <2>2. epTs[r.tg] = r.old
    BY <1>6 DEF Compare, Timestamp
  <2>3. PutEntry(changelog[r.tg], ver, w) = Append(changelog[r.tg], w)
    BY <1>1, <1>4, <2>2 DEF PutEntry
  <2>4. changelog' = [changelog EXCEPT ![r.tg] = Append(changelog[r.tg], w)]
    BY <1>1, <2>1, <2>3
  <2>5. /\ Append(changelog[r.tg], w) \in Seq(Writers)
        /\ Len(Append(changelog[r.tg], w)) = Len(changelog[r.tg]) + 1
    BY <1>1 DEF LogInv, LogTypes
  <2>6. LogTypes'
    <3>1. changelog' \in [TargetGroups -> Seq(Writers)]
      BY <2>4, <2>5 DEF LogInv, LogTypes
    <3>2. epTs' \in [TargetGroups -> Int]
      BY <1>1, <2>1 DEF LogInv, LogTypes
    <3> QED  BY <1>3, <2>1, <3>1, <3>2 DEF LogInv, LogTypes
  <2>7. TimestampsAgree'
    BY <1>1, <1>4, <2>1, <2>2, <2>4, <2>5 DEF LogInv, LogTypes, TimestampsAgree
  <2>8. \A g \in TargetGroups : epTs[g] >= 0 => epTs'[g] >= 0
    BY <1>1, <2>1 DEF LogInv, LogTypes
  <2>9. CallsHaveKeys'
    <3> SUFFICES ASSUME NEW v \in Writers
                 PROVE  /\ writer'[v].pc = "create" => writer'[v].kind = "spec"
                        /\ writer'[v].pc = "commit" => writer'[v].old >= 0 /\ epTs'[writer'[v].tg] >= 0
      BY DEF CallsHaveKeys
    <3>1. writer[v].pc = "commit" => writer[v].tg \in TargetGroups
      BY DEF LogInv, LogTypes, IdleWriter, Calls
    <3> QED  BY <1>2, <2>8, <3>1 DEF LogInv, CallsHaveKeys, IdleWriter
  <2>10. Kept
    <3> SUFFICES ASSUME NEW g \in TargetGroups
                 PROVE  /\ Len(changelog[g]) <= Len(changelog'[g])
                        /\ \A i \in 1 .. Len(changelog[g]) : changelog'[g][i] = changelog[g][i]
      BY <2>1 DEF Kept, LogInv, LogTypes
    <3>1. changelog[g] \in Seq(Writers)  BY DEF LogInv, LogTypes
    <3>2. CASE g = r.tg  BY <2>4, <2>5, <3>1, <3>2 DEF LogInv, LogTypes
    <3>3. CASE g # r.tg  BY <2>4, <3>1, <3>3 DEF LogInv, LogTypes
    <3> QED  BY <3>2, <3>3
  <2> QED  BY <2>6, <2>7, <2>9, <2>10 DEF LogInv
<1> QED  BY <1>0, <1>5, <1>6 DEF Calls

(* A step of a writer that changes nothing in etcd: the call begins, or    *)
(* has read its timestamp.                                                 *)
LEMMA CallKeeps ==
  ASSUME LogInv, NEW w \in Writers, NEW c \in Calls,
         writer' = [writer EXCEPT ![w] = c], UNCHANGED etcdVars,
         c.pc = "create" => c.kind = "spec",
         c.pc = "commit" => c.old >= 0 /\ epTs[c.tg] >= 0
  PROVE  LogInv' /\ Kept
<1>1. writer' \in [Writers -> {IdleWriter} \cup Calls]
  BY DEF LogInv, LogTypes
<1>2. \A v \in Writers : writer'[v] = IF v = w THEN c ELSE writer[v]
  BY DEF LogInv, LogTypes
<1>3. CallsHaveKeys'
  BY <1>2 DEF LogInv, CallsHaveKeys, etcdVars
<1> QED  BY <1>1, <1>3 DEF LogInv, LogTypes, TimestampsAgree, etcdVars, Kept

(* The timestamp of a call whose key is there.                             *)
LEMMA TimestampSeen ==
  ASSUME LogInv, NEW r \in Calls, Timestamp(r) # -1
  PROVE  Timestamp(r) \in Int /\ Timestamp(r) >= 0 /\ epTs[r.tg] >= 0
<1>1. r.tg \in TargetGroups  BY DEF Calls
<1> QED  BY <1>1 DEF LogInv, LogTypes, TimestampsAgree, Timestamp

-----------------------------------------------------------------------------
LEMMA WriterKeeps ==
  ASSUME LogInv, NEW w \in Writers,
         \/ \E tg \in TargetGroups : UpsertTargetGroupSpec(w, tg) \/ UpsertEndpoint(w, tg)
         \/ CreateTargetGroup(w) \/ CreateFailed(w)
         \/ ReadTimestamp(w) \/ CommitTxn(w) \/ RetryTxn(w) \/ TxnFailed(w)
  PROVE  LogInv' /\ Kept
<1> DEFINE r == writer[w]
<1>0. r.pc # "idle" => r \in Calls
  BY DEF LogInv, LogTypes, IdleWriter
<1>1. ASSUME NEW tg \in TargetGroups, UpsertTargetGroupSpec(w, tg)
      PROVE  LogInv' /\ Kept
  <2> DEFINE c == [pc |-> "create", kind |-> "spec", tg |-> tg, old |-> 0, left |-> MaxTxRetryAttempts]
  <2>1. c \in Calls  BY ChangelogAssumption DEF Calls
  <2>2. writer' = [writer EXCEPT ![w] = c] /\ UNCHANGED etcdVars  BY <1>1 DEF UpsertTargetGroupSpec
  <2> HIDE DEF c
  <2>3. c.pc = "create" /\ c.kind = "spec"  BY DEF c
  <2> QED  BY <2>1, <2>2, <2>3, CallKeeps
<1>2. ASSUME NEW tg \in TargetGroups, UpsertEndpoint(w, tg)
      PROVE  LogInv' /\ Kept
  <2> DEFINE c == [pc |-> "read", kind |-> "endpoint", tg |-> tg, old |-> 0, left |-> MaxTxRetryAttempts]
  <2>1. c \in Calls  BY ChangelogAssumption DEF Calls
  <2>2. writer' = [writer EXCEPT ![w] = c] /\ UNCHANGED etcdVars  BY <1>2 DEF UpsertEndpoint
  <2> HIDE DEF c
  <2>3. c.pc = "read"  BY DEF c
  <2> QED  BY <2>1, <2>2, <2>3, CallKeeps
<1>3. CASE CreateTargetGroup(w)
  <2>1. r \in Calls /\ r.tg \in TargetGroups  BY <1>0, <1>3 DEF CreateTargetGroup, Calls
  <2>2. CreateKeys(r.tg)  BY <1>3 DEF CreateTargetGroup
  <2>3. writer' = [writer EXCEPT ![w] = [r EXCEPT !.pc = "read"]]  BY <1>3 DEF CreateTargetGroup
  <2>4. [r EXCEPT !.pc = "read"] \in Calls /\ [r EXCEPT !.pc = "read"].pc = "read"  BY <2>1 DEF Calls
  <2>5. writer' \in [Writers -> {IdleWriter} \cup Calls]  BY <2>3, <2>4 DEF LogInv, LogTypes
  <2>6. \A v \in Writers : writer'[v] = IF v = w THEN [r EXCEPT !.pc = "read"] ELSE writer[v]
    BY <2>3 DEF LogInv, LogTypes
  <2>7. \A v \in Writers : writer'[v].pc \in {"create", "commit"} => writer'[v] = writer[v]
    BY <2>4, <2>6
  <2> QED  BY <2>1, <2>2, <2>5, <2>7, CreateKeeps
<1>4. CASE CreateFailed(w)
  <2>1. r \in Calls /\ r.tg \in TargetGroups  BY <1>0, <1>4 DEF CreateFailed, Calls
  <2>2. Return(w)  BY <1>4 DEF CreateFailed
  <2>3. CASE CreateKeys(r.tg)
    <3>1. writer' \in [Writers -> {IdleWriter} \cup Calls]
      BY <2>2 DEF LogInv, LogTypes, Return
    <3>2. \A v \in Writers : writer'[v] = IF v = w THEN IdleWriter ELSE writer[v]
      BY <2>2 DEF LogInv, LogTypes, Return
    <3>3. \A v \in Writers : writer'[v].pc \in {"create", "commit"} => writer'[v] = writer[v]
      BY <3>2 DEF IdleWriter
    <3> QED  BY <2>1, <2>3, <3>1, <3>3, CreateKeeps
  <2>4. CASE UNCHANGED <<etcdVars, stream>>
    BY <2>2, <2>4, ReturnKeeps
  <2> QED  BY <1>4, <2>3, <2>4 DEF CreateFailed
<1>5. CASE ReadTimestamp(w)
  <2>1. r \in Calls /\ UNCHANGED etcdVars  BY <1>0, <1>5 DEF ReadTimestamp
  <2>2. CASE Timestamp(r) = -1
    BY <1>5, <2>1, <2>2, ReturnKeeps DEF ReadTimestamp
  <2>3. CASE Timestamp(r) # -1
    <3> DEFINE c == [r EXCEPT !.pc = "commit", !.old = Timestamp(r)]
    <3>1. Timestamp(r) \in Int /\ Timestamp(r) >= 0 /\ epTs[r.tg] >= 0  BY <2>1, <2>3, TimestampSeen
    <3>2. c \in Calls /\ c.pc = "commit" /\ c.old = Timestamp(r) /\ c.tg = r.tg  BY <2>1, <3>1 DEF Calls
    <3>3. writer' = [writer EXCEPT ![w] = c]  BY <1>5, <2>3 DEF ReadTimestamp
    <3> HIDE DEF c
    <3> QED  BY <2>1, <3>1, <3>2, <3>3, CallKeeps
  <2> QED  BY <2>2, <2>3
<1>6. CASE CommitTxn(w)
  BY <1>6, PutsKeep DEF CommitTxn
<1>7. CASE RetryTxn(w)
  <2>1. r \in Calls /\ UNCHANGED etcdVars /\ r.pc = "commit"  BY <1>0, <1>7 DEF RetryTxn
  <2>2. CASE r.left = 1
    BY <1>7, <2>1, <2>2, ReturnKeeps DEF RetryTxn
  <2>3. CASE r.left # 1
    <3> DEFINE c == [r EXCEPT !.old = Timestamp(r), !.left = @ - 1]
    <3>1. r.tg \in TargetGroups /\ r.left \in Int /\ epTs[r.tg] >= 0
      BY <2>1 DEF Calls, LogInv, CallsHaveKeys
    <3>2. Timestamp(r) # -1
      BY <3>1 DEF Timestamp, LogInv, LogTypes, TimestampsAgree
    <3>3. Timestamp(r) \in Int /\ Timestamp(r) >= 0  BY <2>1, <3>2, TimestampSeen
    <3>4. c \in Calls
      <4>1. \A t, l \in Int : [r EXCEPT !.old = t, !.left = l] \in Calls  BY <2>1 DEF Calls
      <4>2. r.left - 1 \in Int  BY <3>1
      <4> QED  BY <3>3, <4>1, <4>2
    <3>5. c.old = Timestamp(r) /\ c.tg = r.tg  BY <2>1 DEF Calls
    <3>6. writer' = [writer EXCEPT ![w] = c]  BY <1>7, <2>3 DEF RetryTxn
    <3>7. c.pc = "commit"  BY <2>1 DEF Calls
    <3> HIDE DEF c
    <3> QED  BY <2>1, <3>1, <3>3, <3>4, <3>5, <3>6, <3>7, CallKeeps
  <2> QED  BY <2>2, <2>3
<1>8. CASE TxnFailed(w)
  <2>1. Return(w)  BY <1>8 DEF TxnFailed
  <2>2. CASE UNCHANGED <<etcdVars, stream>>  BY <2>1, <2>2, ReturnKeeps
  <2>3. CASE writer[w].pc = "commit" /\ Compare(writer[w]) /\ TxnPuts(w)
    BY <2>1, <2>3, PutsKeep
  <2> QED  BY <1>8, <2>2, <2>3 DEF TxnFailed
<1> QED  BY <1>1, <1>2, <1>3, <1>4, <1>5, <1>6, <1>7, <1>8

(* Only the writers change what the API keeps in etcd.                     *)
LEMMA NextKeeps == LogInv /\ [Next]_vars => LogInv' /\ Kept
<1> SUFFICES ASSUME LogInv, [Next]_vars PROVE LogInv' /\ Kept
  OBVIOUS
<1>1. CASE Writing
  <2>1. ChangelogNext  BY <1>1 DEF Writing
  <2> QED  BY <2>1, WriterKeeps DEF ChangelogNext
<1>2. CASE \E tgs \in SUBSET TargetGroups : WritePlacement(tgs)
  BY <1>2, LogUnchanged DEF WritePlacement, logVars, writerVars
<1>3. CASE Watching
  BY <1>3, LogUnchanged DEF Watching, HandlePlacementChange, HandleTgSpecChange,
     HandleEndpointChange, OpenWatch, logVars, writerVars
<1>4. CASE Restart
  BY <1>4, LogUnchanged DEF Restart, logVars, writerVars
<1>5. CASE \E k \in Kinds : Rewatch(k)
  BY <1>5, LogUnchanged DEF Rewatch, logVars, writerVars
<1>6. CASE \E tg \in TargetGroups : Fetching(tg) \/ FetchFailed(tg)
  BY <1>6, LogUnchanged DEF Fetching, FetchBegin, FetchSpec, FetchChangelog, FetchFailed,
     UpdateTargetGroup, logVars, writerVars
<1>7. CASE Polling
  BY <1>7, LogUnchanged DEF Polling, PollUpdates, GetDataplanePlacement, GetTargetGroupChanges,
     InsertPlaceholders, WakeUp, UpdateDesired, logVars, writerVars
<1>8. CASE WaitTimeout \/ ReplyLost
  BY <1>8, LogUnchanged DEF WaitTimeout, ReplyLost, logVars, writerVars
<1>9. CASE UNCHANGED vars
  BY <1>9, LogUnchanged DEF vars, logVars, writerVars
<1> QED  BY <1>1, <1>2, <1>3, <1>4, <1>5, <1>6, <1>7, <1>8, <1>9 DEF Next

LEMMA AlwaysLogInv == Spec => []LogInv
  BY LogInit, NextKeeps, PTL DEF Spec

(* An entry of the changelog is never changed and never removed, for every *)
(* number of writers, calls, attempts and faults (api.go:79-118).          *)
THEOREM AppendOnly == Spec => ChangelogAppendOnly
<1>1. LogInv /\ [Next]_vars =>
        [\A tg \in TargetGroups :
            /\ Len(changelog[tg]) <= Len(changelog'[tg])
            /\ \A i \in 1 .. Len(changelog[tg]) : changelog'[tg][i] = changelog[tg][i]]_changelog
  BY NextKeeps DEF Kept
<1> QED  BY <1>1, AlwaysLogInv, PTL DEF Spec, ChangelogAppendOnly

-----------------------------------------------------------------------------
(* From etcd to the cache.  What lies in a watch's queue, in a fetch and   *)
(* in the cache was written to etcd: a version of a spec that is not ahead *)
(* of the one in etcd, and a piece of the changelog.                       *)
Seen(ts, v) == v <= ts \/ v = 0

PieceOf(written, base, log) ==
    /\ base + Len(log) <= Len(written)
    /\ \A i \in 1 .. Len(log) : log[i] = written[base + i]

SpecEvents == {e \in [tg : TargetGroups, ver : Nat] : Seen(specTs[e.tg], e.ver)}
EndpointEvents ==
    {e \in [tg : TargetGroups, ver : Nat, entry : Writers] :
        e.ver \in 1 .. Len(changelog[e.tg]) /\ changelog[e.tg][e.ver] = e.entry}
Placements == [version : Nat, tgs : SUBSET TargetGroups]
EventsOf(k) ==
    IF k = "spec" THEN SpecEvents ELSE IF k = "endpoint" THEN EndpointEvents ELSE Placements
StreamsOf(k) == [open : BOOLEAN, queue : Seq(EventsOf(k)), last : Seq(EventsOf(k)), behind : Nat]

StreamInv ==
    /\ stream = [k \in Kinds |-> stream[k]]
    /\ \A k \in Kinds : stream[k] \in StreamsOf(k)

Groups == [spec : Nat, ep : Nat, base : Nat, log : Seq(Writers)]
GroupOK(written, ts, g) ==
    /\ g \in Groups
    /\ g.ep = g.base + Len(g.log)
    /\ PieceOf(written, g.base, g.log)
    /\ Seen(ts, g.spec)

CacheInv ==
    /\ tgCache \in [TargetGroups -> {<<>>} \cup {<<g>> : g \in Groups}]
    /\ \A tg \in TargetGroups : Cached(tg) => GroupOK(changelog[tg], specTs[tg], Group(tg))

Reading == [pc : {"spec", "log"}, spec : Nat, base : Nat]
Applying == [pc : {"apply"}, spec : Nat, base : Nat, log : Seq(Writers)]
FetchOK(written, ts, f) ==
    \/ f = NoFetch
    \/ f = [pc |-> "begin"]
    \/ f \in Reading /\ f.base <= Len(written) /\ Seen(ts, f.spec)
    \/ f \in Applying /\ PieceOf(written, f.base, f.log) /\ Seen(ts, f.spec)

FetchInv ==
    /\ fetch = [tg \in TargetGroups |-> fetch[tg]]
    /\ \A tg \in TargetGroups :
          /\ FetchOK(changelog[tg], specTs[tg], fetch[tg])
          /\ fetch[tg].pc # "none" => Cached(tg)

SourceInv == LogInv /\ placement \in Placements /\ StreamInv /\ CacheInv /\ FetchInv

-----------------------------------------------------------------------------
(* What was written stays written when etcd grows.                         *)
LEMMA PieceGrows ==
  ASSUME LogInv, LogInv', Kept, NEW tg \in TargetGroups, NEW base \in Nat, NEW log \in Seq(Writers),
         PieceOf(changelog[tg], base, log)
  PROVE  PieceOf(changelog'[tg], base, log)
  BY DEF LogInv, LogTypes, Kept, PieceOf

LEMMA SeenGrows ==
  ASSUME LogInv, LogInv', Kept, NEW tg \in TargetGroups, NEW v \in Nat, Seen(specTs[tg], v)
  PROVE  Seen(specTs'[tg], v)
  BY DEF LogInv, LogTypes, Kept, Seen

LEMMA GroupGrows ==
  ASSUME LogInv, LogInv', Kept, NEW tg \in TargetGroups, NEW g,
         GroupOK(changelog[tg], specTs[tg], g)
  PROVE  GroupOK(changelog'[tg], specTs'[tg], g)
<1>1. g.base \in Nat /\ g.log \in Seq(Writers) /\ g.spec \in Nat  BY DEF GroupOK, Groups
<1> QED  BY <1>1, PieceGrows, SeenGrows DEF GroupOK

LEMMA FetchGrows ==
  ASSUME LogInv, LogInv', Kept, NEW tg \in TargetGroups, NEW f,
         FetchOK(changelog[tg], specTs[tg], f)
  PROVE  FetchOK(changelog'[tg], specTs'[tg], f)
<1>1. CASE f \in Reading /\ f.base <= Len(changelog[tg]) /\ Seen(specTs[tg], f.spec)
  <2>1. f.base \in Nat /\ f.spec \in Nat  BY <1>1 DEF Reading
  <2>2. f.base <= Len(changelog'[tg])  BY <1>1, <2>1 DEF Kept, LogInv, LogTypes
  <2> QED  BY <1>1, <2>1, <2>2, SeenGrows DEF FetchOK
<1>2. CASE f \in Applying /\ PieceOf(changelog[tg], f.base, f.log) /\ Seen(specTs[tg], f.spec)
  <2>1. f.base \in Nat /\ f.spec \in Nat /\ f.log \in Seq(Writers)  BY <1>2 DEF Applying
  <2> QED  BY <1>2, <2>1, SeenGrows, PieceGrows DEF FetchOK
<1> QED  BY <1>1, <1>2 DEF FetchOK

LEMMA EventsGrow ==
  ASSUME LogInv, LogInv', Kept, NEW k \in Kinds
  PROVE  EventsOf(k) \subseteq EventsOf(k)'
<1>1. SpecEvents \subseteq SpecEvents'
  BY SeenGrows DEF SpecEvents
<1>2. EndpointEvents \subseteq EndpointEvents'
  <2> SUFFICES ASSUME NEW e \in EndpointEvents PROVE e \in EndpointEvents'
    OBVIOUS
  <2>1. /\ e \in [tg : TargetGroups, ver : Nat, entry : Writers]
        /\ e.ver \in 1 .. Len(changelog[e.tg]) /\ changelog[e.tg][e.ver] = e.entry
    BY DEF EndpointEvents
  <2>2. e.ver \in 1 .. Len(changelog'[e.tg]) /\ changelog'[e.tg][e.ver] = e.entry
    BY <2>1 DEF Kept, LogInv, LogTypes
  <2> QED  BY <2>1, <2>2 DEF EndpointEvents
<1> QED  BY <1>1, <1>2 DEF EventsOf, Placements

LEMMA StreamsGrow ==
  ASSUME LogInv, LogInv', Kept, NEW k \in Kinds, NEW s \in StreamsOf(k)
  PROVE  s \in StreamsOf(k)'
<1>1. \A q \in Seq(EventsOf(k)) : q \in Seq(EventsOf(k)')
  BY EventsGrow
<1> QED  BY <1>1 DEF StreamsOf

-----------------------------------------------------------------------------
(* The watches.                                                            *)
LEMMA StreamSame ==
  ASSUME StreamInv, LogInv, LogInv', Kept, UNCHANGED stream
  PROVE  StreamInv'
  BY StreamsGrow DEF StreamInv

LEMMA StreamSet ==
  ASSUME StreamInv, LogInv, LogInv', Kept, NEW k \in Kinds, NEW s \in StreamsOf(k)',
         stream' = [stream EXCEPT ![k] = s]
  PROVE  StreamInv'
<1>1. stream' = [j \in Kinds |-> stream'[j]] /\ stream'[k] = s
  BY DEF StreamInv
<1>2. \A j \in Kinds \ {k} : stream'[j] = stream[j]
  BY DEF StreamInv
<1>3. \A j \in Kinds : stream'[j] \in StreamsOf(j)'
  <2> SUFFICES ASSUME NEW j \in Kinds PROVE stream'[j] \in StreamsOf(j)'
    OBVIOUS
  <2>1. CASE j = k  BY <1>1, <2>1
  <2>2. CASE j # k  BY <1>2, <2>2, StreamsGrow DEF StreamInv
  <2> QED  BY <2>1, <2>2
<1> QED  BY <1>1, <1>3 DEF StreamInv

LEMMA EmitKeeps ==
  ASSUME StreamInv, LogInv, LogInv', Kept, NEW k \in Kinds, NEW e \in EventsOf(k)',
         stream' = Emitted(k, e)
  PROVE  StreamInv'
<1>1. CASE stream[k].open
  <2> DEFINE s == [stream[k] EXCEPT !.queue = Append(@, e)]
  <2>1. stream' = [stream EXCEPT ![k] = s]
    BY <1>1 DEF Emitted, StreamInv
  <2>2. stream[k] \in StreamsOf(k)'
    BY StreamsGrow DEF StreamInv
  <2>3. \A q \in Seq(EventsOf(k)') : Append(q, e) \in Seq(EventsOf(k)')
    OBVIOUS
  <2>4. s \in StreamsOf(k)'
    BY <2>2, <2>3 DEF StreamsOf
  <2> HIDE DEF s
  <2> QED  BY <2>1, <2>4, StreamSet
<1>2. CASE ~stream[k].open
  BY <1>2, StreamSame DEF Emitted
<1> QED  BY <1>1, <1>2

(* What a writer's transaction brings into the watches is what it wrote.   *)
Emits == \/ UNCHANGED stream
         \/ \E k \in Kinds : \E e \in EventsOf(k)' : stream' = Emitted(k, e)

LEMMA CreateEmits ==
  ASSUME LogInv, LogInv', NEW tg \in TargetGroups, CreateKeys(tg)
  PROVE  Emits
<1>1. CASE specTs[tg] = -1
  <2> DEFINE e == [tg |-> tg, ver |-> 0]
  <2>1. e \in SpecEvents'  BY DEF SpecEvents, Seen
  <2>2. stream' = Emitted("spec", e)  BY <1>1 DEF CreateKeys
  <2>3. e \in EventsOf("spec")'  BY <2>1 DEF EventsOf
  <2> QED  BY <2>2, <2>3 DEF Emits, Kinds
<1>2. CASE specTs[tg] # -1
  BY <1>2 DEF CreateKeys, Emits
<1> QED  BY <1>1, <1>2

LEMMA TimestampIsLength ==
  ASSUME LogInv, NEW tg \in TargetGroups, epTs[tg] >= 0
  PROVE  Len(changelog[tg]) = epTs[tg]
  BY DEF LogInv, LogTypes, TimestampsAgree

LEMMA PutsEmit ==
  ASSUME LogInv, LogInv', NEW w \in Writers, writer[w].pc = "commit", Compare(writer[w]), TxnPuts(w)
  PROVE  Emits
<1> DEFINE r == writer[w]
           ver == r.old + 1
<1>0. r \in Calls
  BY DEF LogInv, LogTypes, IdleWriter
<1>1. r.tg \in TargetGroups /\ r.old \in Int /\ r.old >= 0 /\ epTs[r.tg] >= 0
  BY <1>0 DEF LogInv, CallsHaveKeys, Calls
<1>2. CASE r.kind = "spec"
  <2> DEFINE e == [tg |-> r.tg, ver |-> ver]
  <2>1. specTs' = [specTs EXCEPT ![r.tg] = ver]  BY <1>2 DEF TxnPuts
  <2>2. specTs'[r.tg] = ver  BY <1>1, <2>1 DEF LogInv, LogTypes
  <2>3. e \in SpecEvents'  BY <1>1, <2>2 DEF SpecEvents, Seen
  <2>4. stream' = Emitted("spec", e)  BY <1>2 DEF TxnPuts
  <2>5. e \in EventsOf("spec")'  BY <2>3 DEF EventsOf
  <2> QED  BY <2>4, <2>5 DEF Emits, Kinds
<1>3. CASE r.kind = "endpoint"
  <2> DEFINE e == [tg |-> r.tg, ver |-> ver, entry |-> w]
  <2>1. changelog' = [changelog EXCEPT ![r.tg] = PutEntry(@, ver, w)]  BY <1>3 DEF TxnPuts
  <2>2. epTs[r.tg] = r.old  BY <1>3 DEF Compare, Timestamp
  <2>3. Len(changelog[r.tg]) = r.old
    <3>1. Len(changelog[r.tg]) = epTs[r.tg]  BY <1>1, TimestampIsLength
    <3> QED  BY <2>2, <3>1
  <2>4. changelog'[r.tg] = Append(changelog[r.tg], w)
    BY <1>1, <2>1, <2>3 DEF LogInv, LogTypes, PutEntry
  <2>5. changelog[r.tg] \in Seq(Writers)  BY <1>1 DEF LogInv, LogTypes
  <2>6. Len(changelog'[r.tg]) = ver /\ changelog'[r.tg][ver] = w  BY <2>3, <2>4, <2>5
  <2>7. e \in EndpointEvents'  BY <1>1, <2>6 DEF EndpointEvents
  <2>8. stream' = Emitted("endpoint", e)  BY <1>3 DEF TxnPuts
  <2>9. e \in EventsOf("endpoint")'  BY <2>7 DEF EventsOf
  <2> QED  BY <2>8, <2>9 DEF Emits, Kinds
<1> QED  BY <1>0, <1>2, <1>3 DEF Calls

LEMMA WriterEmits ==
  ASSUME LogInv, LogInv', ChangelogNext
  PROVE  Emits
<1> PICK w \in Writers :
        \/ \E tg \in TargetGroups : UpsertTargetGroupSpec(w, tg) \/ UpsertEndpoint(w, tg)
        \/ CreateTargetGroup(w) \/ CreateFailed(w)
        \/ ReadTimestamp(w) \/ CommitTxn(w) \/ RetryTxn(w) \/ TxnFailed(w)
  BY DEF ChangelogNext
<1>0. writer[w].pc # "idle" => writer[w].tg \in TargetGroups
  BY DEF LogInv, LogTypes, IdleWriter, Calls
<1>1. CASE \E tg \in TargetGroups : UpsertTargetGroupSpec(w, tg) \/ UpsertEndpoint(w, tg)
  BY <1>1 DEF UpsertTargetGroupSpec, UpsertEndpoint, Emits
<1>2. CASE CreateTargetGroup(w)
  BY <1>0, <1>2, CreateEmits DEF CreateTargetGroup
<1>3. CASE CreateFailed(w)
  BY <1>0, <1>3, CreateEmits DEF CreateFailed, Emits
<1>4. CASE ReadTimestamp(w) \/ RetryTxn(w)
  BY <1>4 DEF ReadTimestamp, RetryTxn, Emits
<1>5. CASE CommitTxn(w)
  BY <1>5, PutsEmit DEF CommitTxn
<1>6. CASE TxnFailed(w)
  BY <1>6, PutsEmit DEF TxnFailed, Emits
<1> QED  BY <1>1, <1>2, <1>3, <1>4, <1>5, <1>6

LEMMA EmitsKeep ==
  ASSUME StreamInv, LogInv, LogInv', Kept, Emits
  PROVE  StreamInv'
  BY StreamSame, EmitKeeps DEF Emits

(* A handler takes the first event of its watch.                           *)
LEMMA ReceiveKeeps ==
  ASSUME StreamInv, LogInv, LogInv', Kept, NEW k \in Kinds, Receive(k)
  PROVE  StreamInv' /\ stream[k].queue # <<>> /\ Head(stream[k].queue) \in EventsOf(k)
<1> DEFINE s == stream[k]
           b == IF s.behind > 0 THEN s.behind - 1 ELSE 0
           t == [s EXCEPT !.queue = Tail(s.queue), !.last = <<Head(s.queue)>>, !.behind = b]
<1>1. s \in StreamsOf(k)  BY DEF StreamInv
<1>2. s.queue \in Seq(EventsOf(k)) /\ s.queue # <<>> /\ s.behind \in Nat
  BY <1>1 DEF StreamsOf, Receive
<1>3. Head(s.queue) \in EventsOf(k) /\ Tail(s.queue) \in Seq(EventsOf(k))  BY <1>2
<1>4. <<Head(s.queue)>> \in Seq(EventsOf(k)) /\ b \in Nat  BY <1>2, <1>3
<1>5. \A q, l \in Seq(EventsOf(k)), n \in Nat :
         [s EXCEPT !.queue = q, !.last = l, !.behind = n] \in StreamsOf(k)
  BY <1>1 DEF StreamsOf
<1>6. t \in StreamsOf(k)'  BY <1>3, <1>4, <1>5, StreamsGrow
<1>7. stream' = [stream EXCEPT ![k] = t]  BY DEF Receive
<1> HIDE DEF t
<1> QED  BY <1>2, <1>3, <1>6, <1>7, StreamSet

LEMMA RewatchKeeps ==
  ASSUME StreamInv, LogInv, LogInv', Kept, NEW k \in Kinds, Rewatch(k)
  PROVE  StreamInv'
<1> DEFINE s == stream[k]
<1>1. s \in StreamsOf(k)  BY DEF StreamInv
<1>2. s.queue \in Seq(EventsOf(k)) /\ s.last \in Seq(EventsOf(k)) /\ s.behind \in Nat
  BY <1>1 DEF StreamsOf
<1>3. PICK q \in Resumed(s) :
         stream' = [stream EXCEPT ![k].queue = q, ![k].last = <<>>, ![k].behind = Len(q)]
  BY DEF Rewatch
<1>4. q \in Seq(EventsOf(k))
  <2>1. CASE s.behind = 0
    <3>1. q = s.last \o s.queue  BY <1>3, <2>1 DEF Resumed
    <3>2. \A a, b \in Seq(EventsOf(k)) : a \o b \in Seq(EventsOf(k))  OBVIOUS
    <3> QED  BY <1>2, <3>1, <3>2
  <2>2. CASE s.behind # 0
    <3>1. PICK skip \in {0, 1} : q = SubSeq(s.queue, s.behind + skip, Len(s.queue))
      BY <1>3, <2>2 DEF Resumed
    <3>2. \A i \in s.behind + skip .. Len(s.queue) : s.queue[i] \in EventsOf(k)
      BY <1>2, <2>2
    <3> QED  BY <1>2, <2>2, <3>1, <3>2
  <2> QED  BY <2>1, <2>2
<1>5. <<>> \in Seq(EventsOf(k)) /\ Len(q) \in Nat  BY <1>4
<1> DEFINE t == [s EXCEPT !.queue = q, !.last = <<>>, !.behind = Len(q)]
<1>6. \A p, l \in Seq(EventsOf(k)), n \in Nat :
         [s EXCEPT !.queue = p, !.last = l, !.behind = n] \in StreamsOf(k)
  BY <1>1 DEF StreamsOf
<1>7. t \in StreamsOf(k)'  BY <1>4, <1>5, <1>6, StreamsGrow
<1>8. stream' = [stream EXCEPT ![k] = t]  BY <1>3
<1> HIDE DEF t
<1> QED  BY <1>7, <1>8, StreamSet

LEMMA OpenWatchKeeps ==
  ASSUME StreamInv, LogInv, LogInv', Kept, NEW k \in Kinds, OpenWatch(k)
  PROVE  StreamInv'
<1> DEFINE t == [stream[k] EXCEPT !.open = TRUE]
<1>1. t \in StreamsOf(k)'  BY StreamsGrow DEF StreamInv, StreamsOf
<1>2. stream' = [stream EXCEPT ![k] = t]  BY DEF OpenWatch
<1> HIDE DEF t
<1> QED  BY <1>1, <1>2, StreamSet

LEMMA FreshStreams ==
  ASSUME NEW open, \A k \in Kinds : open[k] \in BOOLEAN,
         stream' = [k \in Kinds |-> [ClosedStream EXCEPT !.open = open[k]]]
  PROVE  StreamInv'
<1>1. \A k \in Kinds : [ClosedStream EXCEPT !.open = open[k]] \in StreamsOf(k)'
  <2> SUFFICES ASSUME NEW k \in Kinds
               PROVE  [ClosedStream EXCEPT !.open = open[k]] \in StreamsOf(k)'
    OBVIOUS
  <2>1. [ClosedStream EXCEPT !.open = open[k]] = [open |-> open[k], queue |-> <<>>, last |-> <<>>, behind |-> 0]
    BY DEF ClosedStream
  <2>2. <<>> \in Seq(EventsOf(k)')  OBVIOUS
  <2>3. \A q \in Seq(EventsOf(k)'), o \in BOOLEAN :
           [open |-> o, queue |-> q, last |-> q, behind |-> 0] \in StreamsOf(k)'
    BY DEF StreamsOf
  <2> QED  BY <2>1, <2>2, <2>3
<1> QED  BY <1>1 DEF StreamInv

-----------------------------------------------------------------------------
(* The cache.                                                              *)
CachedStay == \A t \in TargetGroups : Cached(t) => Cached(t)'

LEMMA CachedGroup ==
  ASSUME CacheInv, NEW tg \in TargetGroups, Cached(tg)
  PROVE  /\ tgCache[tg] = <<Group(tg)>>
         /\ GroupOK(changelog[tg], specTs[tg], Group(tg))
         /\ Group(tg) \in Groups
<1>1. PICK g \in Groups : tgCache[tg] = <<g>>
  BY DEF CacheInv, Cached
<1>2. Group(tg) = g  BY <1>1 DEF Group
<1> QED  BY <1>1, <1>2 DEF CacheInv

LEMMA CacheSame ==
  ASSUME CacheInv, LogInv, LogInv', Kept, UNCHANGED tgCache
  PROVE  CacheInv' /\ CachedStay
<1>1. \A tg \in TargetGroups : Cached(tg)' <=> Cached(tg)
  BY DEF Cached
<1>2. \A tg \in TargetGroups : Group(tg)' = Group(tg)
  BY DEF Group
<1>3. \A tg \in TargetGroups : Cached(tg) => GroupOK(changelog'[tg], specTs'[tg], Group(tg))
  BY CachedGroup, GroupGrows
<1>4. tgCache' \in [TargetGroups -> {<<>>} \cup {<<g>> : g \in Groups}]
  BY DEF CacheInv
<1>5. \A tg \in TargetGroups : Cached(tg)' => GroupOK(changelog'[tg], specTs'[tg], Group(tg)')
  BY <1>1, <1>2, <1>3
<1> QED  BY <1>1, <1>4, <1>5 DEF CacheInv, CachedStay

LEMMA CacheSet ==
  ASSUME CacheInv, LogInv, LogInv', Kept, NEW tg \in TargetGroups, NEW g,
         GroupOK(changelog'[tg], specTs'[tg], g), tgCache' = [tgCache EXCEPT ![tg] = <<g>>]
  PROVE  CacheInv' /\ CachedStay /\ Cached(tg)'
<1>1. g \in Groups  BY DEF GroupOK
<1>2. tgCache' \in [TargetGroups -> {<<>>} \cup {<<h>> : h \in Groups}]
  BY <1>1 DEF CacheInv
<1>3. tgCache'[tg] = <<g>> /\ \A t \in TargetGroups \ {tg} : tgCache'[t] = tgCache[t]
  BY DEF CacheInv
<1>4. Cached(tg)' /\ Group(tg)' = g
  BY <1>3 DEF Cached, Group
<1>5. \A t \in TargetGroups \ {tg} : Cached(t)' = Cached(t) /\ Group(t)' = Group(t)
  BY <1>3 DEF Cached, Group
<1>6. \A t \in TargetGroups : Cached(t)' => GroupOK(changelog'[t], specTs'[t], Group(t)')
  <2> SUFFICES ASSUME NEW t \in TargetGroups, Cached(t)'
               PROVE  GroupOK(changelog'[t], specTs'[t], Group(t)')
    OBVIOUS
  <2>1. CASE t = tg  BY <1>4, <2>1
  <2>2. CASE t # tg
    <3>1. Cached(t) /\ Group(t)' = Group(t)  BY <1>5, <2>2
    <3>2. GroupOK(changelog'[t], specTs'[t], Group(t))  BY <3>1, CachedGroup, GroupGrows
    <3> QED  BY <3>1, <3>2
  <2> QED  BY <2>1, <2>2
<1>7. CachedStay
  BY <1>4, <1>5 DEF CachedStay
<1> QED  BY <1>2, <1>4, <1>6, <1>7 DEF CacheInv

(* A group seen through the cache, replaced in place.                      *)
LEMMA InPlace ==
  ASSUME NEW g, NEW h
  PROVE  [<<g>> EXCEPT ![1] = h] = <<h>>
  OBVIOUS

LEMMA FetchSame ==
  ASSUME FetchInv, LogInv, LogInv', Kept, CachedStay, UNCHANGED fetch
  PROVE  FetchInv'
<1>1. \A tg \in TargetGroups : FetchOK(changelog'[tg], specTs'[tg], fetch[tg])
  BY FetchGrows DEF FetchInv
<1> QED  BY <1>1 DEF FetchInv, CachedStay

LEMMA FetchSet ==
  ASSUME FetchInv, LogInv, LogInv', Kept, CachedStay, NEW tg \in TargetGroups, NEW f,
         FetchOK(changelog'[tg], specTs'[tg], f), f.pc # "none" => Cached(tg)',
         fetch' = [fetch EXCEPT ![tg] = f]
  PROVE  FetchInv'
<1>1. fetch' = [t \in TargetGroups |-> fetch'[t]] /\ fetch'[tg] = f
  BY DEF FetchInv
<1>2. \A t \in TargetGroups \ {tg} : fetch'[t] = fetch[t]
  BY DEF FetchInv
<1>3. \A t \in TargetGroups : FetchOK(changelog[t], specTs[t], fetch[t])
  BY DEF FetchInv
<1>4. \A t \in TargetGroups : FetchOK(changelog'[t], specTs'[t], fetch[t])
  BY <1>3, FetchGrows
<1>5. \A t \in TargetGroups : FetchOK(changelog'[t], specTs'[t], fetch'[t])
  BY <1>1, <1>2, <1>4
<1>6. \A t \in TargetGroups : fetch'[t].pc # "none" => Cached(t)'
  BY <1>1, <1>2 DEF FetchInv, CachedStay
<1> QED  BY <1>1, <1>5, <1>6 DEF FetchInv

LEMMA NoFetchOK ==
  ASSUME NEW written, NEW ts
  PROVE  FetchOK(written, ts, NoFetch) /\ NoFetch.pc = "none"
  BY DEF FetchOK, NoFetch

-----------------------------------------------------------------------------
(* The handlers and the fetch, one lemma per step.                         *)
LEMMA MakeGroup ==
  ASSUME NEW written, NEW ts, NEW spec \in Nat, NEW base \in Nat, NEW log \in Seq(Writers),
         NEW ep, ep = base + Len(log), PieceOf(written, base, log), Seen(ts, spec)
  PROVE  GroupOK(written, ts, [spec |-> spec, ep |-> ep, base |-> base, log |-> log])
<1> DEFINE g == [spec |-> spec, ep |-> ep, base |-> base, log |-> log]
<1>1. ep \in Nat  OBVIOUS
<1>2. g \in Groups  BY <1>1 DEF Groups
<1>3. g.spec = spec /\ g.ep = ep /\ g.base = base /\ g.log = log  OBVIOUS
<1> SUFFICES GroupOK(written, ts, g)  OBVIOUS
<1> HIDE DEF g
<1> QED  BY <1>2, <1>3 DEF GroupOK

LEMMA ChangedLog ==
  ASSUME NEW written, NEW ts, NEW g \in Groups, NEW base \in Nat, NEW log \in Seq(Writers),
         NEW ep, ep = base + Len(log), PieceOf(written, base, log), Seen(ts, g.spec)
  PROVE  GroupOK(written, ts, [g EXCEPT !.base = base, !.log = log, !.ep = ep])
<1> DEFINE h == [g EXCEPT !.base = base, !.log = log, !.ep = ep]
<1>1. ep \in Nat  OBVIOUS
<1>2. h \in Groups  BY <1>1 DEF Groups
<1>3. h.spec = g.spec /\ h.ep = ep /\ h.base = base /\ h.log = log  BY DEF Groups
<1> SUFFICES GroupOK(written, ts, h)  OBVIOUS
<1> HIDE DEF h
<1> QED  BY <1>2, <1>3 DEF GroupOK

LEMMA SpecEventKeeps ==
  ASSUME SourceInv, LogInv', Kept, HandleTgSpecChange
  PROVE  StreamInv' /\ CacheInv' /\ CachedStay
<1> DEFINE e == Head(stream["spec"].queue)
<1>0. StreamInv /\ LogInv /\ CacheInv  BY DEF SourceInv
<1>1. StreamInv' /\ e \in SpecEvents
  BY <1>0, ReceiveKeeps DEF HandleTgSpecChange, EventsOf, Kinds
<1>2. e.tg \in TargetGroups /\ e.ver \in Nat /\ Seen(specTs[e.tg], e.ver)
  BY <1>1 DEF SpecEvents
<1>3. Seen(specTs'[e.tg], e.ver)  BY <1>0, <1>2, SeenGrows
<1> DEFINE new == [NoGroup EXCEPT !.spec = e.ver]
           set == [Group(e.tg) EXCEPT !.spec = e.ver]
<1>4. CASE ~Cached(e.tg)
  <2>1. tgCache' = [tgCache EXCEPT ![e.tg] = <<new>>]
    BY <1>4 DEF HandleTgSpecChange
  <2>2. new = [spec |-> e.ver, ep |-> 0, base |-> 0, log |-> <<>>]  BY DEF NoGroup
  <2>3. <<>> \in Seq(Writers) /\ Len(<<>>) = 0  OBVIOUS
  <2>4. changelog'[e.tg] \in Seq(Writers)  BY <1>2 DEF LogInv, LogTypes
  <2>5. PieceOf(changelog'[e.tg], 0, <<>>)  BY <2>3, <2>4 DEF PieceOf
  <2>6. GroupOK(changelog'[e.tg], specTs'[e.tg], new)
    <3>1. 0 = 0 + Len(<<>>)  BY <2>3
    <3> HIDE DEF e, new
    <3>2. GroupOK(changelog'[e.tg], specTs'[e.tg], [spec |-> e.ver, ep |-> 0, base |-> 0, log |-> <<>>])
      BY <1>2, <1>3, <2>3, <2>5, <3>1, MakeGroup
    <3> QED  BY <2>2, <3>2
  <2> HIDE DEF new, e
  <2> QED  BY <1>0, <1>1, <1>2, <2>1, <2>6, CacheSet
<1>5. CASE Cached(e.tg) /\ Group(e.tg).spec >= e.ver
  <2>1. UNCHANGED tgCache  BY <1>5 DEF HandleTgSpecChange
  <2> QED  BY <1>0, <1>1, <2>1, CacheSame
<1>6. CASE Cached(e.tg) /\ ~(Group(e.tg).spec >= e.ver)
  <2>1. tgCache' = [tgCache EXCEPT ![e.tg][1].spec = e.ver]
    BY <1>6 DEF HandleTgSpecChange
  <2>2. /\ tgCache[e.tg] = <<Group(e.tg)>>
        /\ GroupOK(changelog[e.tg], specTs[e.tg], Group(e.tg))
    BY <1>0, <1>2, <1>6, CachedGroup
  <2>3. [tgCache[e.tg] EXCEPT ![1].spec = e.ver] = <<set>>  BY <2>2
  <2>4. tgCache' = [tgCache EXCEPT ![e.tg] = <<set>>]  BY <2>1, <2>3
  <2>5. GroupOK(changelog'[e.tg], specTs'[e.tg], Group(e.tg))
    BY <1>0, <1>2, <2>2, GroupGrows
  <2>6. GroupOK(changelog'[e.tg], specTs'[e.tg], set)
    BY <1>2, <1>3, <2>5 DEF GroupOK, Groups
  <2> HIDE DEF set, e
  <2> QED  BY <1>0, <1>1, <1>2, <2>4, <2>6, CacheSet
<1> QED  BY <1>4, <1>5, <1>6

LEMMA AppendedGroup ==
  ASSUME NEW written \in Seq(Writers), NEW ts \in Int, NEW g, GroupOK(written, ts, g),
         NEW e, e.ver \in 1 .. Len(written), e.entry = written[e.ver], e.entry \in Writers,
         Extends(g, e)
  PROVE  GroupOK(written, ts, AppendIntoChangelog(g, e))
<1> DEFINE b == IF g.log = <<>> THEN e.ver - 1 ELSE g.base
           l == Append(g.log, e.entry)
<1>1. g \in Groups /\ g.base \in Nat /\ g.log \in Seq(Writers) /\ g.spec \in Nat
  BY DEF GroupOK, Groups
<1>2. b \in Nat /\ b + Len(g.log) + 1 = e.ver
  BY <1>1 DEF Extends
<1>3. l \in Seq(Writers) /\ Len(l) = Len(g.log) + 1  BY <1>1
<1>4. \A i \in 1 .. Len(g.log) : l[i] = g.log[i]  BY <1>1
<1>5. l[Len(g.log) + 1] = e.entry  BY <1>1
<1>6. PieceOf(written, g.base, g.log)  BY DEF GroupOK
<1>7. e.ver = b + Len(l)
  <2>1. Len(g.log) \in Nat  BY <1>1
  <2> HIDE DEF b, l
  <2> QED  BY <1>2, <1>3, <2>1
<1>8. \A i \in 1 .. Len(l) : l[i] = written[b + i]
  <2> SUFFICES ASSUME NEW i \in 1 .. Len(l) PROVE l[i] = written[b + i]
    OBVIOUS
  <2>1. CASE i = Len(g.log) + 1  BY <1>1, <1>2, <1>5, <2>1
  <2>2. CASE i # Len(g.log) + 1
    <3>1. i \in 1 .. Len(g.log)  BY <1>1, <1>3, <2>2
    <3>2. g.log # <<>>  BY <1>1, <3>1
    <3>3. b = g.base  BY <3>2
    <3>4. g.log[i] = written[g.base + i]  BY <1>6, <3>1 DEF PieceOf
    <3> HIDE DEF b, l
    <3> QED  BY <1>4, <3>1, <3>3, <3>4
  <2> QED  BY <2>1, <2>2
<1>9. PieceOf(written, b, l)
  BY <1>7, <1>8 DEF PieceOf
<1> HIDE DEF b, l
<1>10. AppendIntoChangelog(g, e) = [g EXCEPT !.base = b, !.log = l, !.ep = e.ver]
  BY <1>1 DEF AppendIntoChangelog, b, l, Groups
<1>11. Seen(ts, g.spec)  BY DEF GroupOK
<1>12. GroupOK(written, ts, [g EXCEPT !.base = b, !.log = l, !.ep = e.ver])
  BY <1>1, <1>2, <1>3, <1>7, <1>9, <1>11, ChangedLog
<1> QED  BY <1>10, <1>12

LEMMA EndpointEventKeeps ==
  ASSUME SourceInv, LogInv', Kept, HandleEndpointChange
  PROVE  StreamInv' /\ CacheInv' /\ CachedStay
<1> DEFINE e == Head(stream["endpoint"].queue)
           g == AppendIntoChangelog(Group(e.tg), e)
<1>0. StreamInv /\ LogInv /\ CacheInv  BY DEF SourceInv
<1>1. StreamInv' /\ e \in EndpointEvents
  BY <1>0, ReceiveKeeps DEF HandleEndpointChange, EventsOf, Kinds
<1>2. /\ e.tg \in TargetGroups /\ e.entry \in Writers
      /\ e.ver \in 1 .. Len(changelog[e.tg]) /\ e.entry = changelog[e.tg][e.ver]
  BY <1>1 DEF EndpointEvents
<1>3. CASE Cached(e.tg) /\ Extends(Group(e.tg), e)
  <2>1. tgCache' = [tgCache EXCEPT ![e.tg][1] = AppendIntoChangelog(@, e)]
    BY <1>3 DEF HandleEndpointChange
  <2>2. /\ tgCache[e.tg] = <<Group(e.tg)>>
        /\ GroupOK(changelog[e.tg], specTs[e.tg], Group(e.tg))
    BY <1>0, <1>2, <1>3, CachedGroup
  <2>3. tgCache[e.tg][1] = Group(e.tg)  BY DEF Group
  <2>4. [tgCache[e.tg] EXCEPT ![1] = AppendIntoChangelog(@, e)] = <<g>>
    BY <2>2, <2>3, InPlace
  <2>5. tgCache' = [tgCache EXCEPT ![e.tg] = <<g>>]  BY <2>1, <2>4
  <2>6. changelog[e.tg] \in Seq(Writers) /\ specTs[e.tg] \in Int
    BY <1>0, <1>2 DEF LogInv, LogTypes
  <2> HIDE DEF e
  <2>7. GroupOK(changelog[e.tg], specTs[e.tg], g)
    BY <1>2, <1>3, <2>2, <2>6, AppendedGroup
  <2>8. GroupOK(changelog'[e.tg], specTs'[e.tg], g)
    BY <1>0, <1>2, <2>7, GroupGrows
  <2> HIDE DEF g
  <2> QED  BY <1>0, <1>1, <1>2, <2>5, <2>8, CacheSet
<1>4. CASE ~(Cached(e.tg) /\ Extends(Group(e.tg), e))
  <2>1. UNCHANGED tgCache  BY <1>4 DEF HandleEndpointChange
  <2> QED  BY <1>0, <1>1, <2>1, CacheSame
<1> QED  BY <1>3, <1>4

(* fetchTargetGroupInfo.                                                   *)
LEMMA FetchBeginKeeps ==
  ASSUME SourceInv, LogInv', Kept, CachedStay, NEW tg \in TargetGroups, FetchBegin(tg)
  PROVE  FetchInv'
<1> DEFINE g == Group(tg)
           f == [pc |-> "spec", spec |-> g.spec, base |-> g.ep]
<1>0. LogInv /\ CacheInv /\ FetchInv  BY DEF SourceInv
<1>1. Cached(tg) /\ fetch' = [fetch EXCEPT ![tg] = f]  BY <1>0 DEF FetchBegin, FetchInv
<1>2. GroupOK(changelog[tg], specTs[tg], g)  BY <1>0, <1>1, CachedGroup
<1>3. g \in Groups /\ g.ep = g.base + Len(g.log) /\ PieceOf(changelog[tg], g.base, g.log) /\ Seen(specTs[tg], g.spec)
  BY <1>2 DEF GroupOK
<1>4. g.ep <= Len(changelog[tg])  BY <1>3 DEF PieceOf
<1>5. f \in Reading /\ f.base = g.ep /\ f.spec = g.spec  BY <1>3 DEF Reading, Groups
<1> HIDE DEF f
<1>6. FetchOK(changelog[tg], specTs[tg], f)  BY <1>3, <1>4, <1>5 DEF FetchOK
<1>7. FetchOK(changelog'[tg], specTs'[tg], f)  BY <1>0, <1>6, FetchGrows
<1> QED  BY <1>0, <1>1, <1>7, FetchSet DEF CachedStay

LEMMA ReadingFetch ==
  ASSUME FetchInv, NEW tg \in TargetGroups, fetch[tg].pc \in {"spec", "log"}
  PROVE  /\ fetch[tg] \in Reading /\ fetch[tg].base <= Len(changelog[tg])
         /\ Seen(specTs[tg], fetch[tg].spec) /\ Cached(tg)
<1>1. FetchOK(changelog[tg], specTs[tg], fetch[tg]) /\ Cached(tg)  BY DEF FetchInv
<1> QED  BY <1>1 DEF FetchOK, NoFetch, Applying

LEMMA ApplyingFetch ==
  ASSUME FetchInv, NEW tg \in TargetGroups, fetch[tg].pc = "apply"
  PROVE  /\ fetch[tg] \in Applying /\ PieceOf(changelog[tg], fetch[tg].base, fetch[tg].log)
         /\ Seen(specTs[tg], fetch[tg].spec) /\ Cached(tg)
<1>1. FetchOK(changelog[tg], specTs[tg], fetch[tg]) /\ Cached(tg)  BY DEF FetchInv
<1> QED  BY <1>1 DEF FetchOK, NoFetch, Reading

LEMMA FetchSpecKeeps ==
  ASSUME SourceInv, LogInv', Kept, CachedStay, NEW tg \in TargetGroups, FetchSpec(tg)
  PROVE  FetchInv'
<1> DEFINE r == fetch[tg]
           v == IF specTs[tg] > r.spec THEN specTs[tg] ELSE r.spec
           f == [r EXCEPT !.pc = "log", !.spec = v]
<1>0. LogInv /\ FetchInv  BY DEF SourceInv
<1>1. r \in Reading /\ r.base <= Len(changelog[tg]) /\ Seen(specTs[tg], r.spec) /\ Cached(tg)
  BY <1>0, ReadingFetch DEF FetchSpec
<1>2. CASE specTs[tg] = -1
  <2>1. fetch' = [fetch EXCEPT ![tg] = NoFetch]  BY <1>2 DEF FetchSpec
  <2> QED  BY <1>0, <2>1, NoFetchOK, FetchSet
<1>3. CASE specTs[tg] # -1
  <2>1. fetch' = [fetch EXCEPT ![tg] = f]
    <3>1. [fetch[tg] EXCEPT !.pc = "log", !.spec = IF specTs[tg] > @ THEN specTs[tg] ELSE @] = f
      BY <1>1 DEF Reading
    <3>2. fetch' = [fetch EXCEPT ![tg] = [fetch[tg] EXCEPT !.pc = "log", !.spec = IF specTs[tg] > @ THEN specTs[tg] ELSE @]]
      BY <1>3 DEF FetchSpec
    <3> HIDE DEF f
    <3> QED  BY <3>1, <3>2
  <2>2. specTs[tg] \in Int /\ r.spec \in Nat  BY <1>0, <1>1 DEF LogInv, LogTypes, Reading
  <2>3. v \in Nat /\ Seen(specTs[tg], v)  BY <1>1, <2>2 DEF Seen
  <2> HIDE DEF v
  <2>4. f \in Reading /\ f.base = r.base /\ f.spec = v  BY <1>1, <2>3 DEF Reading
  <2> HIDE DEF f
  <2>5. FetchOK(changelog[tg], specTs[tg], f)  BY <1>1, <2>3, <2>4 DEF FetchOK
  <2>6. FetchOK(changelog'[tg], specTs'[tg], f)  BY <1>0, <2>5, FetchGrows
  <2> QED  BY <1>0, <1>1, <2>1, <2>6, FetchSet DEF CachedStay
<1> QED  BY <1>2, <1>3

LEMMA TailOfChangelog ==
  ASSUME NEW written \in Seq(Writers), NEW base \in Nat, base <= Len(written)
  PROVE  /\ SubSeq(written, base + 1, Len(written)) \in Seq(Writers)
         /\ PieceOf(written, base, SubSeq(written, base + 1, Len(written)))
<1> DEFINE l == SubSeq(written, base + 1, Len(written))
<1>1. \A i \in base + 1 .. Len(written) : written[i] \in Writers  OBVIOUS
<1>2. l \in Seq(Writers)  BY <1>1
<1>3. Len(l) = Len(written) - base  OBVIOUS
<1>4. \A i \in 1 .. Len(written) - base : l[i] = written[base + i]  OBVIOUS
<1> QED  BY <1>2, <1>3, <1>4 DEF PieceOf

LEMMA FetchChangelogKeeps ==
  ASSUME SourceInv, LogInv', Kept, CachedStay, NEW tg \in TargetGroups, FetchChangelog(tg)
  PROVE  FetchInv'
<1> DEFINE r == fetch[tg]
           l == SubSeq(changelog[tg], r.base + 1, Len(changelog[tg]))
           f == [pc |-> "apply", spec |-> r.spec, base |-> r.base, log |-> l]
<1>0. LogInv /\ FetchInv  BY DEF SourceInv
<1>1. r \in Reading /\ r.base <= Len(changelog[tg]) /\ Seen(specTs[tg], r.spec) /\ Cached(tg)
  BY <1>0, ReadingFetch DEF FetchChangelog
<1>2. fetch' = [fetch EXCEPT ![tg] = f]  BY DEF FetchChangelog
<1>3. changelog[tg] \in Seq(Writers) /\ r.base \in Nat /\ r.spec \in Nat
  BY <1>0, <1>1 DEF LogInv, LogTypes, Reading
<1>4. l \in Seq(Writers) /\ PieceOf(changelog[tg], r.base, l)  BY <1>1, <1>3, TailOfChangelog
<1> HIDE DEF l
<1>5. f \in Applying /\ f.base = r.base /\ f.spec = r.spec /\ f.log = l  BY <1>3, <1>4 DEF Applying
<1> HIDE DEF f
<1>6. FetchOK(changelog[tg], specTs[tg], f)  BY <1>1, <1>4, <1>5 DEF FetchOK
<1>7. FetchOK(changelog'[tg], specTs'[tg], f)  BY <1>0, <1>6, FetchGrows
<1> QED  BY <1>0, <1>1, <1>2, <1>7, FetchSet DEF CachedStay

LEMMA FetchFailedKeeps ==
  ASSUME SourceInv, LogInv', Kept, CachedStay, NEW tg \in TargetGroups, FetchFailed(tg)
  PROVE  FetchInv'
<1>1. fetch' = [fetch EXCEPT ![tg] = NoFetch]  BY DEF FetchFailed
<1> QED  BY <1>1, NoFetchOK, FetchSet DEF SourceInv

(* What updateTargetGroup makes of a cached group and of a fetch.          *)
LEMMA UpdatedGroup ==
  ASSUME NEW written, NEW ts, NEW g, GroupOK(written, ts, g),
         NEW f \in Applying, PieceOf(written, f.base, f.log), Seen(ts, f.spec)
  PROVE  LET h == [g EXCEPT !.spec = IF g.spec < f.spec THEN f.spec ELSE @]
         IN  /\ GroupOK(written, ts, UpdatedChangelog(h, f))
             /\ UpdatedChangelog(h, f).ep >= g.ep
             /\ UpdatedChangelog(h, f).spec >= g.spec
<1> DEFINE v == IF g.spec < f.spec THEN f.spec ELSE g.spec
           h == [g EXCEPT !.spec = v]
           e == f.base + Len(f.log)
<1>1. g \in Groups /\ g.ep = g.base + Len(g.log) /\ PieceOf(written, g.base, g.log) /\ Seen(ts, g.spec)
  BY DEF GroupOK
<1>2. g.spec \in Nat /\ g.ep \in Nat /\ f.spec \in Nat /\ f.base \in Nat /\ f.log \in Seq(Writers)
  BY <1>1 DEF Groups, Applying
<1>3. v \in Nat /\ Seen(ts, v) /\ v >= g.spec  BY <1>1, <1>2
<1> HIDE DEF v
<1>4. h \in Groups /\ h.spec = v /\ h.ep = g.ep /\ h.base = g.base /\ h.log = g.log
  BY <1>1, <1>3 DEF Groups
<1>5. [g EXCEPT !.spec = IF g.spec < f.spec THEN f.spec ELSE @] = h  BY DEF v
<1> HIDE DEF h
<1>6. GroupOK(written, ts, h)  BY <1>1, <1>3, <1>4 DEF GroupOK
<1>7. CASE h.ep < e
  <2> DEFINE u == [h EXCEPT !.ep = e, !.base = f.base, !.log = f.log]
  <2>1. UpdatedChangelog(h, f) = u  BY <1>7 DEF UpdatedChangelog
  <2>2. e \in Nat  BY <1>2
  <2>3. u \in Groups /\ u.ep = e /\ u.base = f.base /\ u.log = f.log /\ u.spec = v
    <3> HIDE DEF e
    <3> QED  BY <1>2, <1>4, <2>2 DEF Groups
  <2> HIDE DEF u
  <2>4. GroupOK(written, ts, u)  BY <1>3, <2>3 DEF GroupOK
  <2>5. u.ep >= g.ep /\ u.spec >= g.spec  BY <1>2, <1>3, <1>4, <1>7, <2>2, <2>3
  <2> QED  BY <1>5, <2>1, <2>4, <2>5
<1>8. CASE ~(h.ep < e)
  <2>1. UpdatedChangelog(h, f) = h  BY <1>8 DEF UpdatedChangelog
  <2> QED  BY <1>2, <1>3, <1>4, <1>5, <1>6, <2>1
<1> QED  BY <1>7, <1>8

LEMMA UpdateKeeps ==
  ASSUME SourceInv, LogInv', Kept, NEW tg \in TargetGroups, UpdateTargetGroup(tg)
  PROVE  CacheInv' /\ CachedStay /\ FetchInv'
<1> DEFINE f == fetch[tg]
           g == Group(tg)
           updated == UpdatedChangelog([g EXCEPT !.spec = IF g.spec < f.spec THEN f.spec ELSE @], f)
<1>0. LogInv /\ CacheInv /\ FetchInv  BY DEF SourceInv
<1>1. f \in Applying /\ PieceOf(changelog[tg], f.base, f.log) /\ Seen(specTs[tg], f.spec) /\ Cached(tg)
  BY <1>0, ApplyingFetch DEF UpdateTargetGroup
<1>2. GroupOK(changelog[tg], specTs[tg], g)  BY <1>0, <1>1, CachedGroup
<1>3. GroupOK(changelog[tg], specTs[tg], updated)
  <2> HIDE DEF f, g
  <2> QED  BY <1>1, <1>2, UpdatedGroup
<1>4. tgCache' = [tgCache EXCEPT ![tg] = <<updated>>] /\ fetch' = [fetch EXCEPT ![tg] = NoFetch]
  BY DEF UpdateTargetGroup
<1> HIDE DEF updated
<1>5. GroupOK(changelog'[tg], specTs'[tg], updated)  BY <1>0, <1>3, GroupGrows
<1>6. CacheInv' /\ CachedStay  BY <1>0, <1>4, <1>5, CacheSet
<1> QED  BY <1>0, <1>4, <1>6, NoFetchOK, FetchSet

(* The placeholders of a poll, and a new process.                          *)
LEMMA PlaceholderOK ==
  ASSUME LogInv, NEW tg \in TargetGroups
  PROVE  GroupOK(changelog[tg], specTs[tg], NoGroup)
<1>1. <<>> \in Seq(Writers) /\ Len(<<>>) = 0 /\ 0 = 0 + Len(<<>>)  OBVIOUS
<1>2. changelog[tg] \in Seq(Writers)  BY DEF LogInv, LogTypes
<1>3. PieceOf(changelog[tg], 0, <<>>) /\ Seen(specTs[tg], 0)  BY <1>1, <1>2 DEF PieceOf, Seen
<1> QED  BY <1>1, <1>3, MakeGroup DEF NoGroup

LEMMA PlaceholdersKeep ==
  ASSUME SourceInv, LogInv', UNCHANGED etcdVars, InsertPlaceholders
  PROVE  CacheInv' /\ FetchInv'
<1> DEFINE missing == {tg \in poll.fetch : ~Cached(tg)}
<1>0. LogInv /\ CacheInv /\ FetchInv  BY DEF SourceInv
<1>1. tgCache' = [tg \in TargetGroups |-> IF tg \in missing THEN <<NoGroup>> ELSE tgCache[tg]]
  BY DEF InsertPlaceholders, Placeholders
<1>2. fetch' = [tg \in TargetGroups |-> IF tg \in poll.fetch THEN [pc |-> "begin"] ELSE fetch[tg]]
  BY DEF InsertPlaceholders
<1>3. NoGroup \in Groups
  <2>1. <<>> \in Seq(Writers)  OBVIOUS
  <2> QED  BY <2>1 DEF NoGroup, Groups
<1>4. tgCache' \in [TargetGroups -> {<<>>} \cup {<<g>> : g \in Groups}]
  <2>1. \A tg \in TargetGroups : (IF tg \in missing THEN <<NoGroup>> ELSE tgCache[tg]) \in {<<>>} \cup {<<g>> : g \in Groups}
    <3>1. <<NoGroup>> \in {<<g>> : g \in Groups}  BY <1>3
    <3> QED  BY <1>0, <3>1 DEF CacheInv
  <2> QED  BY <1>1, <2>1
<1>5. ASSUME NEW tg \in TargetGroups
      PROVE  /\ Cached(tg)' => GroupOK(changelog'[tg], specTs'[tg], Group(tg)')
             /\ Cached(tg) => Cached(tg)'
             /\ tg \in poll.fetch => Cached(tg)'
  <2>0. changelog' = changelog /\ specTs' = specTs  BY DEF etcdVars
  <2>1. CASE tg \in missing
    <3>1. tgCache'[tg] = <<NoGroup>>  BY <1>1, <2>1
    <3>2. Cached(tg)' /\ Group(tg)' = NoGroup  BY <3>1 DEF Cached, Group
    <3> QED  BY <1>0, <2>0, <3>2, PlaceholderOK
  <2>2. CASE tg \notin missing
    <3>1. tgCache'[tg] = tgCache[tg]  BY <1>1, <2>2
    <3>2. Cached(tg)' = Cached(tg) /\ Group(tg)' = Group(tg)  BY <3>1 DEF Cached, Group
    <3>3. tg \in poll.fetch => Cached(tg)  BY <2>2
    <3> QED  BY <1>0, <2>0, <3>2, <3>3, CachedGroup
  <2> QED  BY <2>1, <2>2
<1>6. CacheInv'  BY <1>4, <1>5 DEF CacheInv
<1>7. ASSUME NEW tg \in TargetGroups
      PROVE  /\ FetchOK(changelog'[tg], specTs'[tg], fetch'[tg])
             /\ fetch'[tg].pc # "none" => Cached(tg)'
  <2>0. changelog' = changelog /\ specTs' = specTs  BY DEF etcdVars
  <2>1. CASE tg \in poll.fetch
    BY <1>2, <1>5, <2>1 DEF FetchOK
  <2>2. CASE tg \notin poll.fetch
    <3>1. fetch'[tg] = fetch[tg]  BY <1>2, <2>2
    <3> QED  BY <1>0, <1>5, <2>0, <3>1 DEF FetchInv
  <2> QED  BY <2>1, <2>2
<1>8. fetch' = [tg \in TargetGroups |-> fetch'[tg]]  BY <1>2
<1> QED  BY <1>6, <1>7, <1>8 DEF FetchInv

LEMMA EmptyCache ==
  ASSUME tgCache' = [tg \in TargetGroups |-> <<>>], fetch' = [tg \in TargetGroups |-> NoFetch]
  PROVE  CacheInv' /\ FetchInv'
<1>1. \A tg \in TargetGroups : tgCache'[tg] = <<>> /\ ~Cached(tg)'  BY DEF Cached
<1>2. \A tg \in TargetGroups : fetch'[tg] = NoFetch  OBVIOUS
<1>3. FetchInv'  BY <1>2, NoFetchOK DEF FetchInv
<1> QED  BY <1>1, <1>3 DEF CacheInv

LEMMA RestartKeeps ==
  ASSUME Restart
  PROVE  StreamInv' /\ CacheInv' /\ FetchInv'
<1>1. CacheInv' /\ FetchInv'  BY EmptyCache DEF Restart
<1> DEFINE open == [k \in Kinds |-> k = "placement" /\ placement.version > 0]
<1>2. \A k \in Kinds : open[k] \in BOOLEAN  OBVIOUS
<1>3. stream' = [k \in Kinds |-> [ClosedStream EXCEPT !.open = open[k]]]
  BY DEF Restart, StartedStreams
<1> HIDE DEF open
<1>4. StreamInv'  BY <1>2, <1>3, FreshStreams
<1> QED  BY <1>1, <1>4

(* What every step but those on the cache leaves alone.                    *)
LEMMA SourceSame ==
  ASSUME SourceInv, LogInv', Kept, UNCHANGED <<stream, placement, tgCache, fetch>>
  PROVE  SourceInv'
<1>1. CacheInv' /\ CachedStay  BY CacheSame DEF SourceInv
<1>2. StreamInv'  BY StreamSame DEF SourceInv
<1>3. FetchInv'  BY <1>1, FetchSame DEF SourceInv
<1> QED  BY <1>1, <1>2, <1>3 DEF SourceInv, Placements

LEMMA SourceNext == SourceInv /\ [Next]_vars => SourceInv'
<1> SUFFICES ASSUME SourceInv, [Next]_vars PROVE SourceInv'
  OBVIOUS
<1>0. LogInv /\ StreamInv /\ CacheInv /\ FetchInv /\ placement \in Placements  BY DEF SourceInv
<1>1. LogInv' /\ Kept  BY <1>0, NextKeeps
<1>2. UNCHANGED tgCache => CacheInv' /\ CachedStay  BY <1>0, <1>1, CacheSame
<1>3. UNCHANGED stream => StreamInv'  BY <1>0, <1>1, StreamSame
<1>4. UNCHANGED fetch /\ CachedStay => FetchInv'  BY <1>0, <1>1, FetchSame
<1>5. UNCHANGED placement => (placement \in Placements)'  BY <1>0 DEF Placements
<1>6. CASE Writing
  <2>1. UNCHANGED <<placement, tgCache, fetch>>  BY <1>6 DEF Writing, apiVars
  <2>2. Emits  BY <1>0, <1>1, <1>6, WriterEmits DEF Writing
  <2>3. StreamInv'  BY <1>0, <1>1, <2>2, EmitsKeep
  <2> QED  BY <1>1, <1>2, <1>4, <1>5, <2>1, <2>3 DEF SourceInv
<1>7. ASSUME NEW tgs \in SUBSET TargetGroups, WritePlacement(tgs) PROVE SourceInv'
  <2>1. UNCHANGED <<tgCache, fetch>>  BY <1>7 DEF WritePlacement, apiVars
  <2>2. placement' = [version |-> placement.version + 1, tgs |-> tgs]  BY <1>7 DEF WritePlacement
  <2>3. placement' \in Placements  BY <1>0, <2>2 DEF Placements
  <2>4. placement' \in EventsOf("placement")'  BY <2>3 DEF EventsOf, Placements
  <2>5. stream' = Emitted("placement", placement')  BY <1>7 DEF WritePlacement
  <2>6. StreamInv'  BY <1>0, <1>1, <2>4, <2>5, EmitKeeps DEF Kinds
  <2> QED  BY <1>1, <1>2, <1>4, <2>1, <2>3, <2>6 DEF SourceInv, Placements
<1>8. CASE HandlePlacementChange
  <2>1. UNCHANGED <<tgCache, fetch, placement>>  BY <1>8 DEF HandlePlacementChange
  <2>2. StreamInv'  BY <1>0, <1>1, <1>8, ReceiveKeeps DEF HandlePlacementChange, Kinds
  <2> QED  BY <1>1, <1>2, <1>4, <1>5, <2>1, <2>2 DEF SourceInv
<1>9. CASE HandleTgSpecChange
  <2>1. UNCHANGED <<fetch, placement>>  BY <1>9 DEF HandleTgSpecChange
  <2> QED  BY <1>1, <1>4, <1>5, <1>9, <2>1, SpecEventKeeps DEF SourceInv
<1>10. CASE HandleEndpointChange
  <2>1. UNCHANGED <<fetch, placement>>  BY <1>10 DEF HandleEndpointChange
  <2> QED  BY <1>1, <1>4, <1>5, <1>10, <2>1, EndpointEventKeeps DEF SourceInv
<1>11. ASSUME NEW k \in Kinds, OpenWatch(k) \/ Rewatch(k) PROVE SourceInv'
  <2>1. UNCHANGED <<tgCache, fetch, placement>>  BY <1>11 DEF OpenWatch, Rewatch, apiVars
  <2>2. StreamInv'  BY <1>0, <1>1, <1>11, OpenWatchKeeps, RewatchKeeps
  <2> QED  BY <1>1, <1>2, <1>4, <1>5, <2>1, <2>2 DEF SourceInv
<1>12. CASE Restart
  <2>1. UNCHANGED placement  BY <1>12 DEF Restart
  <2> QED  BY <1>1, <1>5, <1>12, <2>1, RestartKeeps DEF SourceInv
<1>13. ASSUME NEW tg \in TargetGroups,
              FetchBegin(tg) \/ FetchSpec(tg) \/ FetchChangelog(tg) \/ FetchFailed(tg)
       PROVE  SourceInv'
  <2>1. UNCHANGED <<tgCache, stream, placement>>
    BY <1>13 DEF FetchBegin, FetchSpec, FetchChangelog, FetchFailed
  <2>2. CachedStay  BY <1>2, <2>1
  <2>3. FetchInv'
    BY <1>1, <1>13, <2>2, FetchBeginKeeps, FetchSpecKeeps, FetchChangelogKeeps, FetchFailedKeeps
  <2> QED  BY <1>1, <1>2, <1>3, <1>5, <2>1, <2>3 DEF SourceInv
<1>14. ASSUME NEW tg \in TargetGroups, UpdateTargetGroup(tg) PROVE SourceInv'
  <2>1. UNCHANGED <<stream, placement>>  BY <1>14 DEF UpdateTargetGroup
  <2> QED  BY <1>1, <1>3, <1>5, <1>14, <2>1, UpdateKeeps DEF SourceInv
<1>15. CASE InsertPlaceholders
  <2>1. UNCHANGED <<stream, placement>> /\ UNCHANGED etcdVars  BY <1>15 DEF InsertPlaceholders
  <2> QED  BY <1>1, <1>3, <1>5, <1>15, <2>1, PlaceholdersKeep DEF SourceInv
<1>16. CASE \/ PollUpdates \/ GetDataplanePlacement \/ GetTargetGroupChanges
            \/ WakeUp \/ UpdateDesired \/ WaitTimeout \/ ReplyLost
  <2>1. UNCHANGED <<stream, placement, tgCache, fetch>>
    BY <1>16 DEF PollUpdates, GetDataplanePlacement, GetTargetGroupChanges, WakeUp, UpdateDesired,
       WaitTimeout, ReplyLost, apiVars
  <2> QED  BY <1>1, <2>1, SourceSame
<1>17. CASE UNCHANGED vars
  <2>1. UNCHANGED <<stream, placement, tgCache, fetch>>  BY <1>17 DEF vars, apiVars
  <2> QED  BY <1>1, <2>1, SourceSame
<1> QED  BY <1>6, <1>7, <1>8, <1>9, <1>10, <1>11, <1>12, <1>13, <1>14, <1>15, <1>16, <1>17
         DEF Next, Watching, Fetching, Polling

LEMMA SourceInit == Init => SourceInv
<1> SUFFICES ASSUME Init PROVE SourceInv
  OBVIOUS
<1>1. LogInv  BY LogInit
<1>2. placement \in Placements  BY DEF Init, Placements
<1>3. \A k \in Kinds : [ClosedStream EXCEPT !.open = TRUE] \in StreamsOf(k)
  <2> SUFFICES ASSUME NEW k \in Kinds PROVE [ClosedStream EXCEPT !.open = TRUE] \in StreamsOf(k)
    OBVIOUS
  <2>1. \A o \in BOOLEAN :
           [ClosedStream EXCEPT !.open = o] = [open |-> o, queue |-> <<>>, last |-> <<>>, behind |-> 0]
    BY DEF ClosedStream
  <2>2. <<>> \in Seq(EventsOf(k))  OBVIOUS
  <2>3. \A q \in Seq(EventsOf(k)), o \in BOOLEAN :
           [open |-> o, queue |-> q, last |-> q, behind |-> 0] \in StreamsOf(k)
    BY DEF StreamsOf
  <2> QED  BY <2>1, <2>2, <2>3
<1>4. stream = [k \in Kinds |-> [ClosedStream EXCEPT !.open = TRUE]]  BY DEF Init
<1>5. StreamInv  BY <1>3, <1>4 DEF StreamInv
<1>6. \A tg \in TargetGroups : tgCache[tg] = <<>> /\ ~Cached(tg)  BY DEF Init, Cached
<1>7. tgCache \in [TargetGroups -> {<<>>} \cup {<<g>> : g \in Groups}]  BY DEF Init
<1>8. CacheInv  BY <1>6, <1>7 DEF CacheInv
<1>9. fetch = [tg \in TargetGroups |-> NoFetch]  BY DEF Init
<1>10. FetchInv  BY <1>9, NoFetchOK DEF FetchInv
<1> QED  BY <1>1, <1>2, <1>5, <1>8, <1>10 DEF SourceInv

LEMMA AlwaysSourceInv == Spec => []SourceInv
  BY SourceInit, SourceNext, PTL DEF Spec

LEMMA PieceIsSubSeq ==
  ASSUME NEW written \in Seq(Writers), NEW base \in Nat, NEW log \in Seq(Writers), PieceOf(written, base, log)
  PROVE  log = SubSeq(written, base + 1, base + Len(log))
<1> DEFINE n == Len(log)
           s == SubSeq(written, base + 1, base + n)
<1>1. n \in Nat /\ base + n <= Len(written)  BY DEF PieceOf
<1>2. \A i \in base + 1 .. base + n : written[i] \in Writers  BY <1>1
<1>3. s \in Seq(Writers) /\ Len(s) = n  BY <1>1, <1>2
<1>4. \A i \in 1 .. n : s[i] = written[base + i]  BY <1>1
<1>5. \A i \in 1 .. n : s[i] = log[i]  BY <1>4 DEF PieceOf
<1> SUFFICES log = s  OBVIOUS
<1> HIDE DEF s
<1> QED  BY <1>3, <1>5

(* A cached changelog is a piece of the one in etcd that ends at the       *)
(* version the entry reports, for every number of target groups, writers,  *)
(* calls and faults (runtime.go:62-70 and 241-255).                        *)
THEOREM CacheIsWritten == Spec => []CachedChangelogIsWritten
<1>1. SourceInv => CachedChangelogIsWritten
  <2> SUFFICES ASSUME SourceInv, NEW tg \in TargetGroups, Cached(tg)
               PROVE  LET g == Group(tg) IN
                      /\ g.ep = g.base + Len(g.log) \/ g.log = <<>>
                      /\ g.log = SubSeq(changelog[tg], g.base + 1, g.base + Len(g.log))
                      /\ g.spec <= specTs[tg] \/ g.spec = 0
    BY DEF CachedChangelogIsWritten
  <2> DEFINE g == Group(tg)
  <2>1. GroupOK(changelog[tg], specTs[tg], g) /\ g \in Groups  BY CachedGroup DEF SourceInv
  <2>2. changelog[tg] \in Seq(Writers)  BY DEF SourceInv, LogInv, LogTypes
  <2>3. g.base \in Nat /\ g.log \in Seq(Writers)  BY <2>1 DEF Groups
  <2>4. g.log = SubSeq(changelog[tg], g.base + 1, g.base + Len(g.log))
    <3> HIDE DEF g
    <3> QED  BY <2>1, <2>2, <2>3, PieceIsSubSeq DEF GroupOK
  <2> QED  BY <2>1, <2>4 DEF GroupOK, Seen
<1> QED  BY <1>1, AlwaysSourceInv, PTL

-----------------------------------------------------------------------------
(* The long poll and the agent.  A reply is computed from versions that    *)
(* the agent still has when it stores it: nothing but a reply changes them.*)
Statuses == [spec : Nat, ep : Nat]
Changes == [spec : Nat, hasSpec : BOOLEAN, ep : Nat, log : Seq(Writers)]
Maps(S) == UNION {[D -> S] : D \in SUBSET TargetGroups}
Subs == SUBSET (TargetGroups \cup {Node})

Waiting == [pc : {"placement", "wait"}, closed : BOOLEAN, subs : Subs]
Comparing == [pc : {"groups"}, closed : BOOLEAN, subs : Subs, version : Nat,
              added : SUBSET TargetGroups, deleted : SUBSET TargetGroups]
Answers == [pc : {"insert", "wait", "reply"}, closed : BOOLEAN, subs : Subs, wait : BOOLEAN,
            fetch : SUBSET TargetGroups, version : Nat, removed : SUBSET TargetGroups,
            new : Maps(Changes), update : Maps(Changes)]

NotBehind(st, c) == st.spec <= c.spec /\ st.ep <= c.ep

CompareOK(p, a) == a.version <= p.version /\ p.added \cap DOMAIN a.status = {}

AnswerOK(p, a) ==
    /\ a.version <= p.version
    /\ DOMAIN p.new \cap DOMAIN a.status = {}
    /\ DOMAIN p.update \subseteq DOMAIN a.status
    /\ \A tg \in DOMAIN p.update : NotBehind(a.status[tg], p.update[tg])

PollOK(p, a) ==
    \/ p = Idle
    \/ p \in Waiting
    \/ p \in Comparing /\ CompareOK(p, a)
    \/ p \in Answers /\ AnswerOK(p, a)

AgentType == agent \in [version : Nat, status : Maps(Statuses)]
NodeType == dplCache \in {<<>>, << <<>> >>} \cup {<< <<pl>> >> : pl \in Placements}

PollInv == AgentType /\ NodeType /\ PollOK(poll, agent)

LEMMA InMaps ==
  ASSUME NEW S, NEW D \in SUBSET TargetGroups, NEW f \in [D -> S]
  PROVE  f \in Maps(S)
  BY DEF Maps

LEMMA OfMaps ==
  ASSUME NEW S, NEW f \in Maps(S)
  PROVE  DOMAIN f \in SUBSET TargetGroups /\ f \in [DOMAIN f -> S]
  BY DEF Maps

(* A notification changes the poll's subscriptions only.                   *)
LEMMA NotifyKeeps ==
  ASSUME NEW entry, PollOK(poll, agent), Notify(entry)
  PROVE  PollOK(poll', agent)
<1>1. CASE poll' = poll  BY <1>1
<1>2. CASE poll.pc # "idle" /\ entry \in poll.subs
  <2> DEFINE p == [poll EXCEPT !.closed = TRUE, !.subs = poll.subs \ {entry}]
  <2>1. poll' = p  BY <1>2 DEF Notify
  <2>2. \A s \in Subs : s \ {entry} \in Subs  BY DEF Subs
  <2>3. CASE poll = Idle  BY <1>2, <2>3 DEF Idle
  <2>4. CASE poll \in Waiting
    <3>1. \A c \in BOOLEAN, s \in Subs : [poll EXCEPT !.closed = c, !.subs = s] \in Waiting
      BY <2>4 DEF Waiting
    <3>2. poll.subs \in Subs  BY <2>4 DEF Waiting
    <3> QED  BY <2>1, <2>2, <3>1, <3>2 DEF PollOK
  <2>5. CASE poll \in Comparing /\ CompareOK(poll, agent)
    <3>1. \A c \in BOOLEAN, s \in Subs : [poll EXCEPT !.closed = c, !.subs = s] \in Comparing
      BY <2>5 DEF Comparing
    <3>2. poll.subs \in Subs  BY <2>5 DEF Comparing
    <3>3. p \in Comparing  BY <2>2, <3>1, <3>2
    <3>4. p.version = poll.version /\ p.added = poll.added  BY <2>5 DEF Comparing
    <3> HIDE DEF p
    <3> QED  BY <2>1, <2>5, <3>3, <3>4 DEF PollOK, CompareOK
  <2>6. CASE poll \in Answers /\ AnswerOK(poll, agent)
    <3>1. \A c \in BOOLEAN, s \in Subs : [poll EXCEPT !.closed = c, !.subs = s] \in Answers
      BY <2>6 DEF Answers
    <3>2. poll.subs \in Subs  BY <2>6 DEF Answers
    <3>3. p \in Answers  BY <2>2, <3>1, <3>2
    <3>4. p.version = poll.version /\ p.new = poll.new /\ p.update = poll.update  BY <2>6 DEF Answers
    <3> HIDE DEF p
    <3> QED  BY <2>1, <2>6, <3>3, <3>4 DEF PollOK, AnswerOK
  <2> QED  BY <2>3, <2>4, <2>5, <2>6 DEF PollOK
<1> QED  BY <1>1, <1>2 DEF Notify

LEMMA PollAt ==
  ASSUME PollOK(poll, agent)
  PROVE  /\ poll.pc = "placement" => poll \in Waiting
         /\ poll.pc = "groups" => poll \in Comparing /\ CompareOK(poll, agent)
         /\ poll.pc \in {"insert", "reply"} => poll \in Answers /\ AnswerOK(poll, agent)
         /\ poll.pc = "wait" => poll.subs \in Subs /\ poll.closed \in BOOLEAN
  BY DEF PollOK, Idle, Waiting, Comparing, Answers

(* A change of a target group is not behind the versions it was taken for. *)
LEMMA ChangeNotBehind ==
  ASSUME CacheInv, NEW tg \in TargetGroups, Cached(tg), NEW st \in Statuses
  PROVE  DiffForTg(tg, st) \in Changes /\ NotBehind(st, DiffForTg(tg, st))
<1> DEFINE g == Group(tg)
           c == DiffForTg(tg, st)
           v == IF g.spec > st.spec THEN g.spec ELSE st.spec
           n == IF g.ep > st.ep THEN g.ep ELSE st.ep
           l == IF g.ep > st.ep THEN SubSeq(g.log, Start(g, st.ep) + 1, Len(g.log)) ELSE <<>>
<1>1. g \in Groups  BY CachedGroup
<1>2. g.spec \in Nat /\ g.ep \in Nat /\ g.base \in Nat /\ g.log \in Seq(Writers)  BY <1>1 DEF Groups
<1>3. st.spec \in Nat /\ st.ep \in Nat  BY DEF Statuses
<1>4. v \in Nat /\ st.spec <= v /\ n \in Nat /\ st.ep <= n  BY <1>2, <1>3
<1>5. Start(g, st.ep) \in Nat
  <2>1. Len(g.log) \in Nat  BY <1>2
  <2> HIDE DEF g
  <2> QED  BY <1>2, <1>3, <2>1 DEF Start, SearchedIndex
<1>6. l \in Seq(Writers)
  <2> DEFINE m == Start(g, st.ep)
  <2>1. \A i \in m + 1 .. Len(g.log) : g.log[i] \in Writers  BY <1>2, <1>5
  <2> HIDE DEF m
  <2>2. SubSeq(g.log, m + 1, Len(g.log)) \in Seq(Writers)  BY <1>2, <1>5, <2>1 DEF m
  <2> QED  BY <2>2 DEF m
<1>7. c = [spec |-> v, hasSpec |-> g.spec > st.spec, ep |-> n, log |-> l]  BY DEF DiffForTg
<1>8. (g.spec > st.spec) \in BOOLEAN  OBVIOUS
<1> HIDE DEF v, n, l, c, g
<1>9. \A b \in BOOLEAN : [spec |-> v, hasSpec |-> b, ep |-> n, log |-> l] \in Changes
  BY <1>4, <1>6 DEF Changes
<1>10. c \in Changes /\ c.spec = v /\ c.ep = n  BY <1>7, <1>8, <1>9
<1> QED  BY <1>4, <1>10 DEF NotBehind, c

LEMMA GetPlacementKeeps ==
  ASSUME PollInv, GetDataplanePlacement
  PROVE  PollInv'
<1>0. AgentType /\ NodeType /\ poll \in Waiting
  BY PollAt DEF PollInv, GetDataplanePlacement
<1>1. NodeType' /\ dplCache' # <<>>
  BY <1>0 DEF GetDataplanePlacement, NodeType
<1>2. UNCHANGED agent  BY DEF GetDataplanePlacement
<1>3. AgentType'  BY <1>0, <1>2 DEF AgentType
<1>4. CASE dplCache'[1] = <<>> \/ dplCache'[1][1].version < agent.version
  <2>1. poll' = [poll EXCEPT !.pc = "wait", !.subs = @ \cup {Node}]
    BY <1>4 DEF GetDataplanePlacement
  <2>2. poll.subs \cup {Node} \in Subs  BY <1>0 DEF Waiting, Subs
  <2>3. poll' \in Waiting  BY <1>0, <2>1, <2>2 DEF Waiting
  <2> QED  BY <1>1, <1>3, <2>3 DEF PollInv, PollOK
<1>5. CASE ~(dplCache'[1] = <<>> \/ dplCache'[1][1].version < agent.version)
  <2> DEFINE pl == dplCache'[1][1]
             changed == pl.version # agent.version
             added == IF changed THEN pl.tgs \ Held ELSE {}
             deleted == IF changed THEN Held \ pl.tgs ELSE {}
  <2>1. PICK p \in Placements : dplCache' = << <<p>> >>  BY <1>1, <1>5 DEF NodeType
  <2>2. pl \in Placements /\ ~(pl.version < agent.version)  BY <1>5, <2>1
  <2>3. pl.version \in Nat /\ pl.tgs \in SUBSET TargetGroups  BY <2>2 DEF Placements
  <2>4. agent.version \in Nat /\ Held \in SUBSET TargetGroups
    BY <1>0, OfMaps DEF AgentType, Held
  <2>5. poll' = [pc |-> "groups", closed |-> poll.closed, subs |-> poll.subs, version |-> pl.version,
                 added |-> added, deleted |-> deleted]
    BY <1>5 DEF GetDataplanePlacement
  <2>6. /\ added \in SUBSET TargetGroups /\ deleted \in SUBSET TargetGroups /\ added \cap Held = {}
        /\ agent.version <= pl.version
    BY <2>2, <2>3, <2>4
  <2>7. poll.closed \in BOOLEAN /\ poll.subs \in Subs  BY <1>0 DEF Waiting
  <2> HIDE DEF pl, added, deleted
  <2>8. poll' \in Comparing  BY <2>3, <2>5, <2>6, <2>7 DEF Comparing
  <2>9. CompareOK(poll', agent)  BY <2>5, <2>6 DEF CompareOK, Held
  <2> QED  BY <1>1, <1>2, <1>3, <2>8, <2>9 DEF PollInv, PollOK
<1> QED  BY <1>4, <1>5

(* The changes that GetTargetGroupChanges puts into the answer.            *)
LEMMA ChangesKeep ==
  ASSUME CacheInv, PollInv, GetTargetGroupChanges
  PROVE  PollInv'
<1> DEFINE kept == Held \ poll.deleted
           needFetch == {tg \in poll.added \cup kept : ~Cached(tg)}
           update == {tg \in kept \ needFetch : Updated(tg)}
           needWait == poll.added = {} /\ poll.deleted = {} /\ update = {}
           pc == IF needFetch # {} THEN "insert" ELSE IF needWait THEN "wait" ELSE "reply"
           subs == IF needWait THEN poll.subs \cup (kept \ needFetch) ELSE {}
           new == [tg \in poll.added |-> IF Cached(tg) THEN DiffForTg(tg, NoStatus) ELSE EmptyChange]
           upd == [tg \in update |-> DiffForTg(tg, agent.status[tg])]
<1>0. AgentType /\ NodeType /\ poll \in Comparing /\ CompareOK(poll, agent)
  BY PollAt DEF PollInv, GetTargetGroupChanges
<1>1. UNCHANGED <<agent, dplCache>>  BY DEF GetTargetGroupChanges, apiVars
<1>2. AgentType' /\ NodeType'  BY <1>0, <1>1 DEF AgentType, NodeType
<1>3. /\ Held \in SUBSET TargetGroups
      /\ \A tg \in Held : agent.status[tg] \in Statuses
  <2>1. agent.status \in Maps(Statuses)  BY <1>0 DEF AgentType
  <2>2. DOMAIN agent.status \in SUBSET TargetGroups /\ agent.status \in [DOMAIN agent.status -> Statuses]
    BY <2>1, OfMaps
  <2> QED  BY <2>2 DEF Held
<1>4. /\ poll.added \in SUBSET TargetGroups /\ poll.deleted \in SUBSET TargetGroups
      /\ poll.closed \in BOOLEAN /\ poll.subs \in Subs /\ poll.version \in Nat
  BY <1>0 DEF Comparing
<1>5. kept \in SUBSET TargetGroups /\ needFetch \in SUBSET TargetGroups /\ update \in SUBSET Held
  BY <1>3, <1>4
<1>6. \A tg \in update : Cached(tg)  OBVIOUS
<1>7. new \in Maps(Changes) /\ DOMAIN new = poll.added
  <2>1. EmptyChange \in Changes
    <3>1. <<>> \in Seq(Writers)  OBVIOUS
    <3> QED  BY <3>1 DEF EmptyChange, Changes
  <2>2. NoStatus \in Statuses  BY DEF NoStatus, Statuses
  <2>3. \A tg \in poll.added : Cached(tg) => DiffForTg(tg, NoStatus) \in Changes
    BY <1>4, <2>2, ChangeNotBehind
  <2>4. new \in [poll.added -> Changes]  BY <2>1, <2>3
  <2> QED  BY <1>4, <2>4, InMaps
<1>8. \A tg \in update : DiffForTg(tg, agent.status[tg]) \in Changes
                         /\ NotBehind(agent.status[tg], DiffForTg(tg, agent.status[tg]))
  <2> SUFFICES ASSUME NEW tg \in update
               PROVE  /\ DiffForTg(tg, agent.status[tg]) \in Changes
                      /\ NotBehind(agent.status[tg], DiffForTg(tg, agent.status[tg]))
    OBVIOUS
  <2>1. tg \in TargetGroups /\ tg \in Held /\ Cached(tg)  BY <1>3, <1>5, <1>6
  <2> QED  BY <1>3, <2>1, ChangeNotBehind
<1>9. upd \in Maps(Changes) /\ DOMAIN upd = update
  <2>1. upd \in [update -> Changes]  BY <1>8
  <2> QED  BY <1>3, <1>5, <2>1, InMaps
<1>10. \A tg \in DOMAIN upd : NotBehind(agent.status[tg], upd[tg])
  BY <1>8
<1>11. subs \in Subs  BY <1>4, <1>5 DEF Subs
<1>12. pc \in {"insert", "wait", "reply"} /\ needWait \in BOOLEAN  OBVIOUS
<1>13. poll' = [pc |-> pc, closed |-> poll.closed, subs |-> subs, wait |-> needWait, fetch |-> needFetch,
                version |-> poll.version, removed |-> poll.deleted, new |-> new, update |-> upd]
  BY DEF GetTargetGroupChanges
<1> HIDE DEF pc, subs, needWait, needFetch, new, upd
<1>14. poll' \in Answers
  BY <1>4, <1>5, <1>7, <1>9, <1>11, <1>12, <1>13 DEF Answers
<1>15. poll'.version = poll.version /\ poll'.new = new /\ poll'.update = upd
  BY <1>13
<1>16. DOMAIN new \cap DOMAIN agent.status = {} /\ agent.version <= poll.version
  BY <1>0, <1>7 DEF CompareOK
<1>17. DOMAIN upd \subseteq DOMAIN agent.status
  BY <1>5, <1>9 DEF Held
<1>18. AnswerOK(poll', agent)
  BY <1>10, <1>15, <1>16, <1>17 DEF AnswerOK
<1> QED  BY <1>1, <1>2, <1>14, <1>18 DEF PollInv, PollOK

LEMMA InsertKeeps ==
  ASSUME PollInv, InsertPlaceholders
  PROVE  PollInv'
<1> DEFINE missing == {tg \in poll.fetch : ~Cached(tg)}
           pc == IF poll.wait THEN "wait" ELSE "reply"
           s == poll.subs \cup missing
<1>0. AgentType /\ NodeType /\ poll \in Answers /\ AnswerOK(poll, agent)
  BY PollAt DEF PollInv, InsertPlaceholders
<1>1. UNCHANGED <<agent, dplCache>>  BY DEF InsertPlaceholders
<1>2. AgentType' /\ NodeType'  BY <1>0, <1>1 DEF AgentType, NodeType
<1>3. pc \in {"insert", "wait", "reply"} /\ s \in Subs /\ {} \in SUBSET TargetGroups
  BY <1>0 DEF Answers, Subs
<1>4. poll' = [poll EXCEPT !.pc = pc, !.subs = s, !.fetch = {}]
  BY DEF InsertPlaceholders
<1> HIDE DEF pc, s
<1>5. poll' \in Answers  BY <1>0, <1>3, <1>4 DEF Answers
<1>6. poll'.version = poll.version /\ poll'.new = poll.new /\ poll'.update = poll.update
  BY <1>0, <1>4 DEF Answers
<1> QED  BY <1>0, <1>1, <1>2, <1>5, <1>6 DEF PollInv, PollOK, AnswerOK

(* What an agent has stored goes further.                                  *)
Further == /\ agent.version <= agent'.version
           /\ \A tg \in DOMAIN agent.status \cap DOMAIN agent'.status :
                 /\ agent.status[tg].spec <= agent'.status[tg].spec
                 /\ agent.status[tg].ep <= agent'.status[tg].ep

LEMMA AgentSame ==
  ASSUME AgentType, UNCHANGED agent
  PROVE  Further /\ AgentType'
<1>1. agent.version \in Nat /\ agent.status \in Maps(Statuses)  BY DEF AgentType
<1>2. DOMAIN agent.status \in SUBSET TargetGroups /\ agent.status \in [DOMAIN agent.status -> Statuses]
  BY <1>1, OfMaps
<1> QED  BY <1>1, <1>2 DEF Further, AgentType, Statuses

LEMMA UpdateDesiredKeeps ==
  ASSUME PollInv, UpdateDesired
  PROVE  PollInv' /\ Further
<1> DEFINE r == poll
           new == DOMAIN r.new
           refused == {tg \in new : ~r.new[tg].hasSpec}
           With(added, removed) ==
              [tg \in (Held \cup added) \ removed |->
                  IF tg \in added THEN Stored(r.new[tg])
                  ELSE IF tg \in DOMAIN r.update THEN Stored(r.update[tg]) ELSE agent.status[tg]]
<1>0. AgentType /\ NodeType /\ r \in Answers /\ AnswerOK(r, agent)
  BY PollAt DEF PollInv, UpdateDesired
<1>1. agent.version \in Nat /\ agent.status \in Maps(Statuses)  BY <1>0 DEF AgentType
<1>2. Held \in SUBSET TargetGroups /\ \A tg \in Held : agent.status[tg] \in Statuses
  <2>1. DOMAIN agent.status \in SUBSET TargetGroups /\ agent.status \in [DOMAIN agent.status -> Statuses]
    BY <1>1, OfMaps
  <2> QED  BY <2>1 DEF Held
<1>3. r.new \in Maps(Changes) /\ r.update \in Maps(Changes) /\ r.version \in Nat  BY <1>0 DEF Answers
<1>4. new \in SUBSET TargetGroups /\ \A tg \in new : r.new[tg] \in Changes
  BY <1>3, OfMaps
<1>5. \A tg \in DOMAIN r.update : r.update[tg] \in Changes
  BY <1>3, OfMaps
<1>6. \A c \in Changes : Stored(c) \in Statuses  BY DEF Stored, Changes, Statuses
<1>7. new \cap Held = {} /\ \A tg \in DOMAIN r.update : NotBehind(agent.status[tg], r.update[tg])
  BY <1>0 DEF AnswerOK, Held
<1>8. ASSUME NEW added \in SUBSET new, NEW removed
      PROVE  /\ With(added, removed) \in Maps(Statuses)
             /\ \A tg \in Held \cap DOMAIN With(added, removed) :
                   /\ agent.status[tg].spec <= With(added, removed)[tg].spec
                   /\ agent.status[tg].ep <= With(added, removed)[tg].ep
  <2> DEFINE D == (Held \cup added) \ removed
  <2>1. D \in SUBSET TargetGroups  BY <1>2, <1>4
  <2>2. \A tg \in D : (IF tg \in added THEN Stored(r.new[tg])
                       ELSE IF tg \in DOMAIN r.update THEN Stored(r.update[tg]) ELSE agent.status[tg]) \in Statuses
    BY <1>2, <1>4, <1>5, <1>6
  <2>3. With(added, removed) \in [D -> Statuses]  BY <2>2
  <2>4. ASSUME NEW tg \in Held \cap D
        PROVE  /\ agent.status[tg].spec <= With(added, removed)[tg].spec
               /\ agent.status[tg].ep <= With(added, removed)[tg].ep
    <3>1. tg \notin added  BY <1>7, <2>4
    <3>2. CASE tg \in DOMAIN r.update
      <4>1. With(added, removed)[tg] = Stored(r.update[tg])  BY <2>4, <3>1, <3>2
      <4>2. NotBehind(agent.status[tg], r.update[tg])  BY <1>7, <3>2
      <4> QED  BY <4>1, <4>2 DEF NotBehind, Stored
    <3>3. CASE tg \notin DOMAIN r.update
      <4>1. With(added, removed)[tg] = agent.status[tg]  BY <2>4, <3>1, <3>3
      <4>2. agent.status[tg].spec \in Nat /\ agent.status[tg].ep \in Nat  BY <1>2 DEF Statuses
      <4> QED  BY <4>1, <4>2
    <3> QED  BY <3>2, <3>3
  <2> QED  BY <2>1, <2>3, <2>4, InMaps
<1>9. poll' = Idle /\ UNCHANGED dplCache  BY DEF UpdateDesired, apiVars
<1>10. agent.version <= r.version  BY <1>0 DEF AnswerOK
<1>11. CASE refused = {}
  <2>1. agent' = [version |-> r.version, status |-> With(new, r.removed)]
    BY <1>11 DEF UpdateDesired
  <2> HIDE DEF With
  <2>2. AgentType'  BY <1>3, <1>8, <2>1 DEF AgentType
  <2>3. Further  BY <1>8, <1>10, <2>1 DEF Further, Held
  <2> QED  BY <1>0, <1>9, <2>2, <2>3 DEF PollInv, PollOK, NodeType
<1>12. CASE refused # {}
  <2>1. PICK added \in SUBSET (new \ refused) : agent' = [agent EXCEPT !.status = With(added, {})]
    BY <1>12 DEF UpdateDesired
  <2>2. added \in SUBSET new  BY <2>1
  <2> HIDE DEF With
  <2>3. AgentType'  BY <1>0, <1>8, <2>1, <2>2 DEF AgentType
  <2>4. agent'.version = agent.version /\ agent'.status = With(added, {})
    BY <1>0, <2>1 DEF AgentType
  <2>5. Further  BY <1>1, <1>8, <2>2, <2>4 DEF Further, Held
  <2> QED  BY <1>0, <1>9, <2>3, <2>5 DEF PollInv, PollOK, NodeType
<1> QED  BY <1>11, <1>12

LEMMA PollSame ==
  ASSUME PollInv, UNCHANGED <<agent, dplCache>>, PollOK(poll', agent)
  PROVE  PollInv' /\ Further
  BY AgentSame DEF PollInv, NodeType

LEMMA PlacementEventKeeps ==
  ASSUME SourceInv, PollInv, HandlePlacementChange
  PROVE  PollInv' /\ Further
<1> DEFINE pl == Head(stream["placement"].queue)
<1>0. AgentType /\ NodeType /\ PollOK(poll, agent)  BY DEF PollInv
<1>1. stream["placement"] \in StreamsOf("placement")  BY DEF SourceInv, StreamInv, Kinds
<1>2. stream["placement"].queue \in Seq(Placements) /\ stream["placement"].queue # <<>>
  BY <1>1 DEF StreamsOf, EventsOf, HandlePlacementChange, Receive
<1>3. pl \in Placements  BY <1>2
<1>4. UNCHANGED agent  BY DEF HandlePlacementChange
<1>5. Further /\ AgentType'  BY <1>0, <1>4, AgentSame
<1>6. CASE UNCHANGED <<dplCache, poll>>
  BY <1>0, <1>4, <1>5, <1>6 DEF PollInv, NodeType
<1>7. CASE dplCache' = << <<pl>> >> /\ Notify(Node)
  <2>1. NodeType'
    <3>1. << <<pl>> >> \in {<< <<p>> >> : p \in Placements}  BY <1>3
    <3> HIDE DEF pl
    <3> QED  BY <1>7, <3>1 DEF NodeType, Placements
  <2>2. PollOK(poll', agent)  BY <1>0, <1>7, NotifyKeeps
  <2> QED  BY <1>4, <1>5, <2>1, <2>2 DEF PollInv
<1> QED  BY <1>6, <1>7 DEF HandlePlacementChange

LEMMA RestartedPoll ==
  ASSUME SourceInv, PollInv, Restart
  PROVE  PollInv' /\ Further
<1>1. UNCHANGED agent /\ poll' = Idle  BY DEF Restart
<1>2. Further /\ AgentType'  BY <1>1, AgentSame DEF PollInv
<1>3. placement \in Placements  BY DEF SourceInv
<1>4. dplCache' = <<>> \/ dplCache' = << <<placement>> >>  BY DEF Restart
<1>5. NodeType'
  <2>1. << <<placement>> >> \in {<< <<p>> >> : p \in Placements}  BY <1>3
  <2> QED  BY <1>4, <2>1 DEF NodeType, Placements
<1> QED  BY <1>1, <1>2, <1>5 DEF PollInv, PollOK

LEMMA PollNext == SourceInv /\ PollInv /\ [Next]_vars => PollInv' /\ Further
<1> SUFFICES ASSUME SourceInv, PollInv, [Next]_vars PROVE PollInv' /\ Further
  OBVIOUS
<1>0. AgentType /\ NodeType /\ PollOK(poll, agent)  BY DEF PollInv
<1>1. UNCHANGED <<poll, agent, dplCache>> => PollInv' /\ Further
  BY <1>0, AgentSame DEF PollInv, NodeType
<1>2. CASE Writing
  BY <1>1, <1>2 DEF Writing, apiVars
<1>3. CASE \E tgs \in SUBSET TargetGroups : WritePlacement(tgs)
  BY <1>1, <1>3 DEF WritePlacement, apiVars
<1>4. CASE HandlePlacementChange  BY <1>4, PlacementEventKeeps
<1>5. CASE HandleTgSpecChange
  <2>1. UNCHANGED <<agent, dplCache>>  BY <1>5 DEF HandleTgSpecChange
  <2>2. UNCHANGED poll \/ Notify(Head(stream["spec"].queue).tg)  BY <1>5 DEF HandleTgSpecChange
  <2>3. PollOK(poll', agent)  BY <1>0, <2>2, NotifyKeeps
  <2> QED  BY <2>1, <2>3, PollSame
<1>6. CASE HandleEndpointChange
  <2>1. UNCHANGED <<agent, dplCache>>  BY <1>6 DEF HandleEndpointChange
  <2>2. UNCHANGED poll \/ Notify(Head(stream["endpoint"].queue).tg)  BY <1>6 DEF HandleEndpointChange
  <2>3. PollOK(poll', agent)  BY <1>0, <2>2, NotifyKeeps
  <2> QED  BY <2>1, <2>3, PollSame
<1>7. CASE \E k \in Kinds : OpenWatch(k) \/ Rewatch(k)
  BY <1>1, <1>7 DEF OpenWatch, Rewatch, apiVars
<1>8. CASE Restart  BY <1>8, RestartedPoll
<1>9. ASSUME NEW tg \in TargetGroups,
             FetchBegin(tg) \/ FetchSpec(tg) \/ FetchChangelog(tg) \/ FetchFailed(tg)
      PROVE  PollInv' /\ Further
  BY <1>1, <1>9 DEF FetchBegin, FetchSpec, FetchChangelog, FetchFailed
<1>10. ASSUME NEW tg \in TargetGroups, UpdateTargetGroup(tg) PROVE PollInv' /\ Further
  <2>1. UNCHANGED <<agent, dplCache>>  BY <1>10 DEF UpdateTargetGroup
  <2>2. UNCHANGED poll \/ Notify(tg)  BY <1>10 DEF UpdateTargetGroup
  <2>3. PollOK(poll', agent)  BY <1>0, <2>2, NotifyKeeps
  <2> QED  BY <2>1, <2>3, PollSame
<1>11. CASE PollUpdates
  <2>1. Notifier \in Waiting  BY DEF Notifier, Waiting, Subs
  <2> QED  BY <1>11, <2>1, PollSame DEF PollUpdates, apiVars, PollOK
<1>12. CASE GetDataplanePlacement
  <2>1. UNCHANGED agent  BY <1>12 DEF GetDataplanePlacement
  <2> QED  BY <1>0, <1>12, <2>1, GetPlacementKeeps, AgentSame
<1>13. CASE GetTargetGroupChanges
  <2>1. UNCHANGED agent  BY <1>13 DEF GetTargetGroupChanges
  <2> QED  BY <1>0, <1>13, <2>1, ChangesKeep, AgentSame DEF SourceInv
<1>14. CASE InsertPlaceholders
  <2>1. UNCHANGED agent  BY <1>14 DEF InsertPlaceholders
  <2> QED  BY <1>0, <1>14, <2>1, InsertKeeps, AgentSame
<1>15. CASE WakeUp
  <2>1. poll.subs \in Subs /\ poll.closed \in BOOLEAN  BY <1>0, <1>15, PollAt DEF WakeUp
  <2>2. poll' \in Waiting  BY <1>15, <2>1 DEF WakeUp, Waiting
  <2> QED  BY <1>15, <2>2, PollSame DEF WakeUp, apiVars, PollOK
<1>16. CASE UpdateDesired  BY <1>16, UpdateDesiredKeeps
<1>17. CASE WaitTimeout \/ ReplyLost
  BY <1>17, PollSame DEF WaitTimeout, ReplyLost, apiVars, PollOK
<1>18. CASE UNCHANGED vars
  BY <1>1, <1>18 DEF vars, apiVars
<1> QED  BY <1>2, <1>3, <1>4, <1>5, <1>6, <1>7, <1>8, <1>9, <1>10, <1>11, <1>12, <1>13, <1>14, <1>15,
            <1>16, <1>17, <1>18 DEF Next, Watching, Fetching, Polling

LEMMA PollInit == Init => PollInv
<1> SUFFICES ASSUME Init PROVE PollInv
  OBVIOUS
<1>1. agent = [version |-> 0, status |-> <<>>]  BY DEF Init
<1>2. <<>> \in [{} -> Statuses]  OBVIOUS
<1>3. <<>> \in Maps(Statuses)  BY <1>2, InMaps
<1> QED  BY <1>1, <1>3 DEF Init, PollInv, AgentType, NodeType, PollOK

LEMMA AlwaysPollInv == Spec => [](SourceInv /\ PollInv)
  BY SourceInit, PollInit, SourceNext, PollNext, PTL DEF Spec

(* What an agent has stored never goes back to an older version, whatever  *)
(* the API process has missed or forgotten, for every number of target     *)
(* groups, writers, calls, placements and faults (api.go:254).             *)
THEOREM GoesFurther == Spec => AgentGoesFurther
<1>1. SourceInv /\ PollInv /\ [Next]_vars =>
        [/\ agent.version <= agent'.version
         /\ \A tg \in DOMAIN agent.status \cap DOMAIN agent'.status :
               /\ agent.status[tg].spec <= agent'.status[tg].spec
               /\ agent.status[tg].ep <= agent'.status[tg].ep]_agent
  BY PollNext DEF Further
<1> QED  BY <1>1, AlwaysPollInv, PTL DEF Spec, AgentGoesFurther

-----------------------------------------------------------------------------
LEMMA SubSeqFacts ==
  ASSUME NEW S, NEW q \in Seq(S), NEW a \in Nat, NEW b \in Nat, a <= b, b <= Len(q)
  PROVE  /\ SubSeq(q, a + 1, b) \in Seq(S)
         /\ Len(SubSeq(q, a + 1, b)) = b - a
         /\ \A i \in 1 .. b - a : SubSeq(q, a + 1, b)[i] = q[a + i]
<1>1. \A i \in a + 1 .. b : q[i] \in S  OBVIOUS
<1>2. SubSeq(q, a + 1, b) \in Seq(S)  BY <1>1
<1>3. Len(SubSeq(q, a + 1, b)) = b - a  OBVIOUS
<1>4. \A i \in 1 .. b - a : SubSeq(q, a + 1, b)[i] = q[a + i]  OBVIOUS
<1> QED  BY <1>2, <1>3, <1>4

(* The part of a cached changelog behind the agent's version is the part   *)
(* of etcd's changelog behind it.                                          *)
LEMMA LaterEntries ==
  ASSUME NEW written \in Seq(Writers), NEW ts, NEW g, GroupOK(written, ts, g),
         NEW ver \in Nat, g.base < ver, ver < g.ep
  PROVE  SubSeq(g.log, Start(g, ver) + 1, Len(g.log)) = SubSeq(written, ver + 1, g.ep)
<1> DEFINE n == Len(g.log)
           d == ver - g.base
           s == SubSeq(g.log, d + 1, n)
           t == SubSeq(written, ver + 1, g.ep)
<1>1. g.base \in Nat /\ g.log \in Seq(Writers) /\ g.ep = g.base + n  BY DEF GroupOK, Groups
<1>2. /\ g.base + n <= Len(written)
      /\ \A i \in 1 .. n : g.log[i] = written[g.base + i]
  BY DEF GroupOK, PieceOf
<1>3. n \in Nat /\ d \in Nat /\ d >= 1 /\ d < n /\ g.ep \in Nat  BY <1>1
<1>4. Start(g, ver) = d
  <2>1. ~(ver <= g.base) /\ ~(ver > g.base + n) /\ ver > 0  BY <1>1, <1>3
  <2> QED  BY <1>1, <1>3, <2>1 DEF Start, SearchedIndex
<1>5. d = ver - g.base /\ ver = g.base + d  BY <1>1
<1> HIDE DEF d, n
<1>6. /\ s \in Seq(Writers) /\ Len(s) = n - d
      /\ \A i \in 1 .. n - d : s[i] = g.log[d + i]
  <2>1. d <= n /\ n <= Len(g.log)  BY <1>3 DEF n
  <2> QED  BY <1>1, <1>3, <2>1, SubSeqFacts
<1>7. g.ep - ver = n - d /\ ver <= g.ep  BY <1>1, <1>3, <1>5
<1>8. /\ t \in Seq(Writers) /\ Len(t) = n - d
      /\ \A i \in 1 .. n - d : t[i] = written[ver + i]
  <2>1. g.ep <= Len(written)  BY <1>1, <1>2
  <2> QED  BY <1>3, <1>7, <2>1, SubSeqFacts
<1>9. \A i \in 1 .. n - d : g.log[d + i] = written[ver + i]
  <2> SUFFICES ASSUME NEW i \in 1 .. n - d PROVE g.log[d + i] = written[ver + i]
    OBVIOUS
  <2>0. g.base \in Nat /\ n \in Nat /\ d \in Nat /\ i \in Int /\ 1 <= i /\ i <= n - d  BY <1>1, <1>3
  <2>1. d + i \in 1 .. n  BY <2>0
  <2>2. \A x, y, z \in Int : x + (y + z) = (x + y) + z  OBVIOUS
  <2>3. g.base + (d + i) = ver + i
    <3>1. g.base + (d + i) = (g.base + d) + i  BY <2>0, <2>2
    <3> QED  BY <1>5, <3>1
  <2> QED  BY <1>2, <2>1, <2>3
<1>10. SUFFICES s = t  BY <1>4 DEF n
<1> HIDE DEF s, t
<1>11. \A i \in 1 .. n - d : s[i] = t[i]  BY <1>6, <1>8, <1>9
<1> QED  BY <1>3, <1>6, <1>8, <1>11

LEMMA NotifyStays ==
  ASSUME NEW entry, PollOK(poll, agent), Notify(entry), poll.pc = "groups"
  PROVE  poll'.pc = "groups"
<1>1. poll \in Comparing  BY PollAt
<1> QED  BY <1>1 DEF Notify, Comparing

(* An agent whose version lies inside the cached changelog is given every  *)
(* later entry of etcd's changelog up to the version it is told it has, and*)
(* none twice (data-plane-handler.go:242-266).                             *)
THEOREM EntriesComplete == Spec => NoEntrySkipped
<1> DEFINE Complete ==
      poll.pc = "groups" /\ poll'.pc \in {"insert", "reply"} =>
         \A tg \in DOMAIN poll'.update :
            LET c == poll'.update[tg]
                ver == agent.status[tg].ep
            IN  c.ep > ver /\ ver > Group(tg).base =>
                    c.log = SubSeq(changelog[tg], ver + 1, c.ep)
<1>1. ASSUME SourceInv, PollInv, GetTargetGroupChanges PROVE Complete
  <2> SUFFICES ASSUME NEW tg \in DOMAIN poll'.update,
                      poll'.update[tg].ep > agent.status[tg].ep, agent.status[tg].ep > Group(tg).base
               PROVE  poll'.update[tg].log = SubSeq(changelog[tg], agent.status[tg].ep + 1, poll'.update[tg].ep)
    OBVIOUS
  <2> DEFINE kept == Held \ poll.deleted
             needFetch == {x \in poll.added \cup kept : ~Cached(x)}
             update == {x \in kept \ needFetch : Updated(x)}
             g == Group(tg)
             st == agent.status[tg]
             c == DiffForTg(tg, st)
  <2>1. poll'.update = [x \in update |-> DiffForTg(x, agent.status[x])]
    BY <1>1 DEF GetTargetGroupChanges
  <2>2. tg \in update /\ poll'.update[tg] = c  BY <2>1
  <2>3. agent.status \in Maps(Statuses)  BY <1>1 DEF PollInv, AgentType
  <2>4. tg \in TargetGroups /\ st \in Statuses /\ Cached(tg)
    <3>1. tg \in Held /\ Cached(tg)  BY <2>2
    <3>2. DOMAIN agent.status \in SUBSET TargetGroups /\ agent.status \in [DOMAIN agent.status -> Statuses]
      BY <2>3, OfMaps
    <3> QED  BY <3>1, <3>2 DEF Held
  <2>5. GroupOK(changelog[tg], specTs[tg], g) /\ g \in Groups  BY <1>1, <2>4, CachedGroup DEF SourceInv
  <2>6. changelog[tg] \in Seq(Writers) /\ st.ep \in Nat /\ g.ep \in Nat
    BY <1>1, <2>4, <2>5 DEF SourceInv, LogInv, LogTypes, Statuses, Groups
  <2>7. c.ep = IF g.ep > st.ep THEN g.ep ELSE st.ep  BY DEF DiffForTg
  <2>8. c.ep > st.ep /\ st.ep > g.base  BY <2>2
  <2>9. g.ep > st.ep /\ c.ep = g.ep  BY <2>6, <2>7, <2>8
  <2>10. c.log = SubSeq(g.log, Start(g, st.ep) + 1, Len(g.log))  BY <2>9 DEF DiffForTg
  <2>11. g.base \in Nat  BY <2>5 DEF Groups
  <2> HIDE DEF g, st
  <2>12. g.base < st.ep /\ st.ep < g.ep  BY <2>6, <2>8, <2>9, <2>11
  <2>13. SubSeq(g.log, Start(g, st.ep) + 1, Len(g.log)) = SubSeq(changelog[tg], st.ep + 1, g.ep)
    BY <2>5, <2>6, <2>12, LaterEntries
  <2> QED  BY <2>2, <2>9, <2>10, <2>13 DEF st
<1>2. ASSUME SourceInv, PollInv, [Next]_vars, poll.pc = "groups", poll'.pc \in {"insert", "reply"}
      PROVE  GetTargetGroupChanges
  <2>0. PollOK(poll, agent)  BY <1>2 DEF PollInv
  <2>1. \A entry : ~Notify(entry)
    BY <1>2, <2>0, NotifyStays
  <2>2. poll' # poll /\ poll' # Idle  BY <1>2 DEF Idle
  <2>3. ~Watching
    BY <2>1, <2>2 DEF Watching, HandlePlacementChange, HandleTgSpecChange, HandleEndpointChange, OpenWatch
  <2>4. \A tg \in TargetGroups : ~(Fetching(tg) \/ FetchFailed(tg))
    BY <2>1, <2>2 DEF Fetching, FetchBegin, FetchSpec, FetchChangelog, UpdateTargetGroup, FetchFailed
  <2>5. ~Writing /\ \A tgs \in SUBSET TargetGroups : ~WritePlacement(tgs)
    BY <2>2 DEF Writing, WritePlacement
  <2>6. ~Restart /\ \A k \in Kinds : ~Rewatch(k)
    BY <2>2 DEF Restart, Rewatch
  <2>7. ~(UNCHANGED vars)  BY <2>2 DEF vars
  <2>8. ~(PollUpdates \/ GetDataplanePlacement \/ InsertPlaceholders \/ WakeUp \/ UpdateDesired
          \/ WaitTimeout \/ ReplyLost)
    BY <1>2 DEF PollUpdates, GetDataplanePlacement, InsertPlaceholders, WakeUp, UpdateDesired, WaitTimeout, ReplyLost
  <2> QED  BY <1>2, <2>3, <2>4, <2>5, <2>6, <2>7, <2>8 DEF Next, Polling
<1>3. SourceInv /\ PollInv /\ [Next]_vars => Complete
  BY <1>1, <1>2
<1>4. SourceInv /\ PollInv /\ [Next]_vars =>
       [poll.pc = "groups" /\ poll'.pc \in {"insert", "reply"} =>
         \A tg \in DOMAIN poll'.update :
            LET c == poll'.update[tg]
                ver == agent.status[tg].ep
            IN  c.ep > ver /\ ver > Group(tg).base =>
                    c.log = SubSeq(changelog[tg], ver + 1, c.ep)]_poll
  BY <1>3
<1> QED  BY <1>4, AlwaysPollInv, PTL DEF Spec, NoEntrySkipped

-----------------------------------------------------------------------------
(* The bounds.  The versions that were written and the calls that may      *)
(* still write one are together no more than the calls there were.         *)
Pending(kind) == {w \in Writers : writer[w].pc # "idle" /\ writer[w].kind = kind}

Counted(pending, ts, n) ==
    /\ IsFiniteSet(pending)
    /\ n \in Nat
    /\ Cardinality(pending) <= n
    /\ \A tg \in TargetGroups : ts[tg] + Cardinality(pending) <= n

CountInv ==
    /\ requests \in [spec : 0 .. MaxSpecs, endpoint : 0 .. MaxEntries]
    /\ Counted(Pending("spec"), specTs, requests.spec)
    /\ Counted(Pending("endpoint"), epTs, requests.endpoint)

Timestamps == [TargetGroups -> Int]

LEMMA CountFewer ==
  ASSUME NEW P, NEW Q, Q \subseteq P, NEW ts \in Timestamps, NEW us \in Timestamps, NEW n,
         Counted(P, ts, n), \A tg \in TargetGroups : us[tg] <= ts[tg] \/ us[tg] <= 0
  PROVE  Counted(Q, us, n)
<1>1. IsFiniteSet(P) /\ n \in Nat /\ Cardinality(P) <= n
      /\ \A tg \in TargetGroups : ts[tg] + Cardinality(P) <= n
  BY DEF Counted
<1>2. IsFiniteSet(Q) /\ Cardinality(Q) <= Cardinality(P)  BY <1>1, FS_Subset
<1>3. Cardinality(Q) \in Nat /\ Cardinality(P) \in Nat  BY <1>1, <1>2, FS_CardinalityType
<1>4. ASSUME NEW tg \in TargetGroups PROVE us[tg] + Cardinality(Q) <= n
  <2>1. \A c, d, t, u \in Int : d <= c /\ c <= n /\ t + c <= n /\ (u <= t \/ u <= 0) => u + d <= n
    BY <1>1
  <2>2. ts[tg] \in Int /\ us[tg] \in Int  BY DEF Timestamps
  <2> QED  BY <1>1, <1>2, <1>3, <2>1, <2>2
<1> QED  BY <1>1, <1>2, <1>3, <1>4 DEF Counted

LEMMA CountDone ==
  ASSUME NEW P, NEW w \in P, NEW ts \in Timestamps, NEW us \in Timestamps, NEW n,
         Counted(P, ts, n), \A tg \in TargetGroups : us[tg] <= ts[tg] + 1
  PROVE  Counted(P \ {w}, us, n)
<1>1. IsFiniteSet(P) /\ n \in Nat /\ Cardinality(P) <= n
      /\ \A tg \in TargetGroups : ts[tg] + Cardinality(P) <= n
  BY DEF Counted
<1>2. IsFiniteSet(P \ {w}) /\ Cardinality(P \ {w}) = Cardinality(P) - 1  BY <1>1, FS_RemoveElement
<1>3. Cardinality(P) \in Nat  BY <1>1, FS_CardinalityType
<1>4. ASSUME NEW tg \in TargetGroups PROVE us[tg] + Cardinality(P \ {w}) <= n
  <2>1. \A c, t, u \in Int : t + c <= n /\ u <= t + 1 => u + (c - 1) <= n
    BY <1>1
  <2>2. ts[tg] \in Int /\ us[tg] \in Int  BY DEF Timestamps
  <2> QED  BY <1>1, <1>2, <1>3, <2>1, <2>2
<1>5. Cardinality(P \ {w}) <= n
  <2>1. \A c \in Int : c <= n => c - 1 <= n  BY <1>1
  <2> QED  BY <1>1, <1>2, <1>3, <2>1
<1> QED  BY <1>1, <1>2, <1>4, <1>5 DEF Counted

LEMMA CountStart ==
  ASSUME NEW P, NEW w, NEW ts \in Timestamps, NEW n, Counted(P, ts, n)
  PROVE  Counted(P \cup {w}, ts, n + 1)
<1>1. IsFiniteSet(P) /\ n \in Nat /\ Cardinality(P) <= n
      /\ \A tg \in TargetGroups : ts[tg] + Cardinality(P) <= n
  BY DEF Counted
<1>2. IsFiniteSet(P \cup {w})
      /\ (Cardinality(P \cup {w}) = Cardinality(P) \/ Cardinality(P \cup {w}) = Cardinality(P) + 1)
  BY <1>1, FS_AddElement
<1>3. Cardinality(P) \in Nat  BY <1>1, FS_CardinalityType
<1>4. ASSUME NEW tg \in TargetGroups PROVE ts[tg] + Cardinality(P \cup {w}) <= n + 1
  <2>1. \A c, d, t \in Int : t + c <= n /\ (d = c \/ d = c + 1) => t + d <= n + 1
    BY <1>1
  <2>2. ts[tg] \in Int  BY DEF Timestamps
  <2>3. Cardinality(P \cup {w}) \in Int  BY <1>2, <1>3
  <2> QED  BY <1>1, <1>2, <1>3, <2>1, <2>2, <2>3
<1> QED  BY <1>1, <1>2, <1>3, <1>4 DEF Counted

LEMMA PendingAfter ==
  ASSUME LogInv, NEW w \in Writers, NEW c, writer' = [writer EXCEPT ![w] = c], NEW kind
  PROVE  Pending(kind)' = IF c.pc # "idle" /\ c.kind = kind THEN Pending(kind) \cup {w} ELSE Pending(kind) \ {w}
<1>1. \A v \in Writers : writer'[v] = IF v = w THEN c ELSE writer[v]
  BY DEF LogInv, LogTypes
<1> QED  BY <1>1 DEF Pending

(* No writer has written a version: a call goes on or returns, and may     *)
(* have created the keys.                                                  *)
LEMMA CountGoesOn ==
  ASSUME LogInv, LogInv', CountInv, NEW w \in Writers, writer[w].pc # "idle",
         NEW c, writer' = [writer EXCEPT ![w] = c],
         c.pc # "idle" => c.kind = writer[w].kind, UNCHANGED requests,
         \A tg \in TargetGroups : /\ specTs'[tg] <= specTs[tg] \/ specTs'[tg] <= 0
                                  /\ epTs'[tg] <= epTs[tg] \/ epTs'[tg] <= 0
  PROVE  CountInv'
<1>1. \A k : Pending(k)' \subseteq Pending(k)
  <2> SUFFICES ASSUME NEW k PROVE Pending(k)' \subseteq Pending(k)
    OBVIOUS
  <2>1. Pending(k)' = IF c.pc # "idle" /\ c.kind = k THEN Pending(k) \cup {w} ELSE Pending(k) \ {w}
    BY PendingAfter
  <2>2. c.pc # "idle" /\ c.kind = k => w \in Pending(k)  BY DEF Pending
  <2> QED  BY <2>1, <2>2
<1>2. specTs \in Timestamps /\ epTs \in Timestamps /\ specTs' \in Timestamps /\ epTs' \in Timestamps
  BY DEF LogInv, LogTypes, Timestamps
<1>3. Counted(Pending("spec")', specTs', requests.spec)  BY <1>1, <1>2, CountFewer DEF CountInv
<1>4. Counted(Pending("endpoint")', epTs', requests.endpoint)  BY <1>1, <1>2, CountFewer DEF CountInv
<1> QED  BY <1>3, <1>4 DEF CountInv

LEMMA CreatedKeys ==
  ASSUME LogInv, NEW tg \in TargetGroups, CreateKeys(tg)
  PROVE  \A t \in TargetGroups : /\ specTs'[t] <= specTs[t] \/ specTs'[t] <= 0
                                 /\ epTs'[t] <= epTs[t] \/ epTs'[t] <= 0
<1>1. CASE specTs[tg] = -1
  <2>1. specTs' = [specTs EXCEPT ![tg] = 0] /\ epTs' = [epTs EXCEPT ![tg] = 0]  BY <1>1 DEF CreateKeys
  <2> QED  BY <2>1 DEF LogInv, LogTypes
<1>2. CASE specTs[tg] # -1
  <2>1. specTs' = specTs /\ epTs' = epTs  BY <1>2 DEF CreateKeys, etcdVars
  <2> QED  BY <2>1 DEF LogInv, LogTypes
<1> QED  BY <1>1, <1>2

LEMMA CountPuts ==
  ASSUME LogInv, LogInv', CountInv, NEW w \in Writers, writer[w].pc = "commit", Compare(writer[w]),
         TxnPuts(w), Return(w), UNCHANGED requests
  PROVE  CountInv'
<1> DEFINE r == writer[w]
<1>0. r \in Calls  BY DEF LogInv, LogTypes, IdleWriter
<1>1. r.tg \in TargetGroups /\ r.old \in Int /\ r.kind \in {"spec", "endpoint"}  BY <1>0 DEF Calls
<1>2. ASSUME NEW k PROVE Pending(k)' = Pending(k) \ {w}
  <2>1. writer' = [writer EXCEPT ![w] = IdleWriter] /\ IdleWriter.pc = "idle"  BY DEF Return, IdleWriter
  <2>2. Pending(k)' = IF IdleWriter.pc # "idle" /\ IdleWriter.kind = k THEN Pending(k) \cup {w} ELSE Pending(k) \ {w}
    BY <2>1, PendingAfter
  <2> QED  BY <2>1, <2>2
<1>3. specTs \in Timestamps /\ epTs \in Timestamps /\ specTs' \in Timestamps /\ epTs' \in Timestamps
  BY DEF LogInv, LogTypes, Timestamps
<1>4. w \in Pending(r.kind)  BY DEF Pending
<1>5. CASE r.kind = "spec"
  <2>1. specTs' = [specTs EXCEPT ![r.tg] = r.old + 1] /\ epTs' = epTs  BY <1>5 DEF TxnPuts
  <2>2. specTs[r.tg] = r.old  BY <1>5 DEF Compare, Timestamp
  <2>3. \A t \in TargetGroups : specTs'[t] <= specTs[t] + 1
    BY <1>1, <1>3, <2>1, <2>2 DEF Timestamps
  <2>4. Counted(Pending("spec") \ {w}, specTs', requests.spec)
    BY <1>3, <1>4, <1>5, <2>3, CountDone DEF CountInv
  <2>5. \A t \in TargetGroups : epTs'[t] <= epTs[t]  BY <1>3, <2>1 DEF Timestamps
  <2>6. Counted(Pending("endpoint") \ {w}, epTs', requests.endpoint)
    BY <1>3, <2>5, CountFewer DEF CountInv
  <2> QED  BY <1>2, <2>4, <2>6 DEF CountInv
<1>6. CASE r.kind = "endpoint"
  <2>1. epTs' = [epTs EXCEPT ![r.tg] = r.old + 1] /\ specTs' = specTs  BY <1>6 DEF TxnPuts
  <2>2. epTs[r.tg] = r.old  BY <1>6 DEF Compare, Timestamp
  <2>3. \A t \in TargetGroups : epTs'[t] <= epTs[t] + 1
    BY <1>1, <1>3, <2>1, <2>2 DEF Timestamps
  <2>4. Counted(Pending("endpoint") \ {w}, epTs', requests.endpoint)
    BY <1>3, <1>4, <1>6, <2>3, CountDone DEF CountInv
  <2>5. \A t \in TargetGroups : specTs'[t] <= specTs[t]  BY <1>3, <2>1 DEF Timestamps
  <2>6. Counted(Pending("spec") \ {w}, specTs', requests.spec)
    BY <1>3, <2>5, CountFewer DEF CountInv
  <2> QED  BY <1>2, <2>4, <2>6 DEF CountInv
<1> QED  BY <1>1, <1>5, <1>6

LEMMA CountSame ==
  ASSUME CountInv, UNCHANGED <<etcdVars, writerVars>>
  PROVE  CountInv'
  BY DEF CountInv, etcdVars, writerVars, Counted, Pending

LEMMA CountUpsert ==
  ASSUME LogInv, CountInv, NEW w \in Writers, NEW tg \in TargetGroups,
         UpsertTargetGroupSpec(w, tg) \/ UpsertEndpoint(w, tg)
  PROVE  CountInv'
<1>1. specTs \in Timestamps /\ epTs \in Timestamps /\ UNCHANGED <<specTs, epTs>>
  BY DEF LogInv, LogTypes, Timestamps, UpsertTargetGroupSpec, UpsertEndpoint, etcdVars
<1>2. w \notin Pending("spec") /\ w \notin Pending("endpoint")
  BY DEF Pending, UpsertTargetGroupSpec, UpsertEndpoint
<1>3. requests.spec \in Nat /\ requests.endpoint \in Nat /\ requests.spec <= MaxSpecs /\ requests.endpoint <= MaxEntries
  BY ChangelogAssumption DEF CountInv
<1>4. CASE UpsertTargetGroupSpec(w, tg)
  <2> DEFINE c == [pc |-> "create", kind |-> "spec", tg |-> tg, old |-> 0, left |-> MaxTxRetryAttempts]
  <2>1. writer' = [writer EXCEPT ![w] = c] /\ c.pc = "create" /\ c.kind = "spec"  BY <1>4 DEF UpsertTargetGroupSpec
  <2> HIDE DEF c
  <2>2. Pending("spec")' = Pending("spec") \cup {w} /\ Pending("endpoint")' = Pending("endpoint")
    <3>1. Pending("spec")' = IF c.pc # "idle" /\ c.kind = "spec" THEN Pending("spec") \cup {w} ELSE Pending("spec") \ {w}
      BY <2>1, PendingAfter
    <3>2. Pending("endpoint")' = IF c.pc # "idle" /\ c.kind = "endpoint" THEN Pending("endpoint") \cup {w} ELSE Pending("endpoint") \ {w}
      BY <2>1, PendingAfter
    <3> QED  BY <1>2, <2>1, <3>1, <3>2
  <2>3. requests' = [requests EXCEPT !.spec = @ + 1] /\ requests.spec < MaxSpecs  BY <1>4 DEF UpsertTargetGroupSpec
  <2>4. /\ requests'.spec = requests.spec + 1 /\ requests'.endpoint = requests.endpoint
        /\ requests' \in [spec : 0 .. MaxSpecs, endpoint : 0 .. MaxEntries]
    BY <1>3, <2>3, ChangelogAssumption DEF CountInv
  <2>5. Counted(Pending("spec") \cup {w}, specTs, requests.spec + 1)  BY <1>1, CountStart DEF CountInv
  <2> QED  BY <1>1, <2>2, <2>4, <2>5 DEF CountInv
<1>5. CASE UpsertEndpoint(w, tg)
  <2> DEFINE c == [pc |-> "read", kind |-> "endpoint", tg |-> tg, old |-> 0, left |-> MaxTxRetryAttempts]
  <2>1. writer' = [writer EXCEPT ![w] = c] /\ c.pc = "read" /\ c.kind = "endpoint"  BY <1>5 DEF UpsertEndpoint
  <2> HIDE DEF c
  <2>2. Pending("endpoint")' = Pending("endpoint") \cup {w} /\ Pending("spec")' = Pending("spec")
    <3>1. Pending("endpoint")' = IF c.pc # "idle" /\ c.kind = "endpoint" THEN Pending("endpoint") \cup {w} ELSE Pending("endpoint") \ {w}
      BY <2>1, PendingAfter
    <3>2. Pending("spec")' = IF c.pc # "idle" /\ c.kind = "spec" THEN Pending("spec") \cup {w} ELSE Pending("spec") \ {w}
      BY <2>1, PendingAfter
    <3> QED  BY <1>2, <2>1, <3>1, <3>2
  <2>3. requests' = [requests EXCEPT !.endpoint = @ + 1] /\ requests.endpoint < MaxEntries  BY <1>5 DEF UpsertEndpoint
  <2>4. /\ requests'.endpoint = requests.endpoint + 1 /\ requests'.spec = requests.spec
        /\ requests' \in [spec : 0 .. MaxSpecs, endpoint : 0 .. MaxEntries]
    BY <1>3, <2>3, ChangelogAssumption DEF CountInv
  <2>5. Counted(Pending("endpoint") \cup {w}, epTs, requests.endpoint + 1)  BY <1>1, CountStart DEF CountInv
  <2> QED  BY <1>1, <2>2, <2>4, <2>5 DEF CountInv
<1> QED  BY <1>4, <1>5

LEMMA CountWriter ==
  ASSUME LogInv, LogInv', CountInv, ChangelogNext
  PROVE  CountInv'
<1> PICK w \in Writers :
        \/ \E tg \in TargetGroups : UpsertTargetGroupSpec(w, tg) \/ UpsertEndpoint(w, tg)
        \/ CreateTargetGroup(w) \/ CreateFailed(w)
        \/ ReadTimestamp(w) \/ CommitTxn(w) \/ RetryTxn(w) \/ TxnFailed(w)
  BY DEF ChangelogNext
<1> DEFINE r == writer[w]
<1>0. r.pc # "idle" => r \in Calls  BY DEF LogInv, LogTypes, IdleWriter
<1>00. UNCHANGED etcdVars => \A tg \in TargetGroups : /\ specTs'[tg] <= specTs[tg] \/ specTs'[tg] <= 0
                                                      /\ epTs'[tg] <= epTs[tg] \/ epTs'[tg] <= 0
  BY DEF LogInv, LogTypes, etcdVars
<1>1. CASE \E tg \in TargetGroups : UpsertTargetGroupSpec(w, tg) \/ UpsertEndpoint(w, tg)
  BY <1>1, CountUpsert
<1>2. CASE CreateTargetGroup(w)
  <2>1. r \in Calls /\ r.pc = "create" /\ UNCHANGED requests /\ CreateKeys(r.tg)
    BY <1>0, <1>2 DEF CreateTargetGroup
  <2>2. r.tg \in TargetGroups  BY <2>1 DEF Calls
  <2> DEFINE c == [r EXCEPT !.pc = "read"]
  <2>3. writer' = [writer EXCEPT ![w] = c]  BY <1>2 DEF CreateTargetGroup
  <2>4. c.kind = r.kind  BY <2>1 DEF Calls
  <2> HIDE DEF c
  <2> QED  BY <2>1, <2>2, <2>3, <2>4, CreatedKeys, CountGoesOn
<1>3. CASE CreateFailed(w)
  <2>1. r \in Calls /\ r.pc = "create" /\ UNCHANGED requests /\ (CreateKeys(r.tg) \/ UNCHANGED etcdVars)
    BY <1>0, <1>3 DEF CreateFailed
  <2>2. r.tg \in TargetGroups  BY <2>1 DEF Calls
  <2>3. writer' = [writer EXCEPT ![w] = IdleWriter] /\ IdleWriter.pc = "idle"
    BY <1>3 DEF CreateFailed, Return, IdleWriter
  <2> QED  BY <1>00, <2>1, <2>2, <2>3, CreatedKeys, CountGoesOn
<1>4. CASE ReadTimestamp(w) \/ RetryTxn(w)
  <2>1. r \in Calls /\ r.pc # "idle" /\ UNCHANGED requests /\ UNCHANGED etcdVars
    BY <1>0, <1>4 DEF ReadTimestamp, RetryTxn
  <2>2. CASE Return(w)
    <3>1. writer' = [writer EXCEPT ![w] = IdleWriter] /\ IdleWriter.pc = "idle"  BY <2>2 DEF Return, IdleWriter
    <3> QED  BY <1>00, <2>1, <3>1, CountGoesOn
  <2>3. CASE \E c : writer' = [writer EXCEPT ![w] = c] /\ c.kind = r.kind
    BY <1>00, <2>1, <2>3, CountGoesOn
  <2>4. [r EXCEPT !.pc = "commit", !.old = Timestamp(r)].kind = r.kind  BY <2>1 DEF Calls
  <2>5. [r EXCEPT !.old = Timestamp(r), !.left = @ - 1].kind = r.kind  BY <2>1 DEF Calls
  <2> QED  BY <1>4, <2>2, <2>3, <2>4, <2>5 DEF ReadTimestamp, RetryTxn
<1>5. CASE CommitTxn(w)
  BY <1>5, CountPuts DEF CommitTxn
<1>6. CASE TxnFailed(w)
  <2>1. r.pc # "idle" /\ UNCHANGED requests /\ Return(w)  BY <1>6 DEF TxnFailed
  <2>2. CASE UNCHANGED etcdVars
    <3>1. writer' = [writer EXCEPT ![w] = IdleWriter] /\ IdleWriter.pc = "idle"  BY <2>1 DEF Return, IdleWriter
    <3> QED  BY <1>00, <2>1, <2>2, <3>1, CountGoesOn
  <2>3. CASE writer[w].pc = "commit" /\ Compare(writer[w]) /\ TxnPuts(w)
    BY <2>1, <2>3, CountPuts
  <2> QED  BY <1>6, <2>2, <2>3 DEF TxnFailed
<1> QED  BY <1>1, <1>2, <1>3, <1>4, <1>5, <1>6

(* The faults together, and the placements, stay within their bounds.      *)
BoundsInv ==
    /\ faults \in [FaultKinds -> Nat]
    /\ faults["error"] + faults["restart"] + faults["rewatch"] <= MaxFaults
    /\ placement.version <= MaxPlacements

LEMMA FaultKeeps ==
  ASSUME BoundsInv, NEW k \in FaultKinds, Fault(k), UNCHANGED placement
  PROVE  BoundsInv'
<1>1. faults["error"] + faults["restart"] + faults["rewatch"] < MaxFaults /\ faults' = [faults EXCEPT ![k] = @ + 1]
  BY DEF Fault
<1>2. faults["error"] \in Nat /\ faults["restart"] \in Nat /\ faults["rewatch"] \in Nat
  BY DEF BoundsInv, FaultKinds
<1>3. faults' \in [FaultKinds -> Nat]  BY <1>1 DEF BoundsInv
<1>4. faults'["error"] + faults'["restart"] + faults'["rewatch"] <= MaxFaults
  <2>1. CASE k = "error"  BY <1>1, <1>2, <2>1, ChangelogAssumption DEF BoundsInv, FaultKinds
  <2>2. CASE k = "restart"  BY <1>1, <1>2, <2>2, ChangelogAssumption DEF BoundsInv, FaultKinds
  <2>3. CASE k = "rewatch"  BY <1>1, <1>2, <2>3, ChangelogAssumption DEF BoundsInv, FaultKinds
  <2> QED  BY <2>1, <2>2, <2>3 DEF FaultKinds
<1> QED  BY <1>3, <1>4 DEF BoundsInv

LEMMA BoundsNext == SourceInv /\ BoundsInv /\ [Next]_vars => BoundsInv'
<1> SUFFICES ASSUME SourceInv, BoundsInv, [Next]_vars PROVE BoundsInv'
  OBVIOUS
<1>0. "error" \in FaultKinds /\ "restart" \in FaultKinds /\ "rewatch" \in FaultKinds  BY DEF FaultKinds
<1>1. UNCHANGED <<faults, placement>> => BoundsInv'  BY DEF BoundsInv
<1>2. CASE Writing
  <2>1. UNCHANGED placement  BY <1>2 DEF Writing
  <2>2. UNCHANGED faults \/ Fault("error")
    BY <1>2 DEF Writing, ChangelogNext, UpsertTargetGroupSpec, UpsertEndpoint, CreateTargetGroup, CreateFailed,
       ReadTimestamp, CommitTxn, RetryTxn, TxnFailed
  <2> QED  BY <1>0, <1>1, <2>1, <2>2, FaultKeeps
<1>3. ASSUME NEW tgs \in SUBSET TargetGroups, WritePlacement(tgs) PROVE BoundsInv'
  <2>1. placement.version \in Nat /\ placement.version < MaxPlacements
    BY <1>3 DEF SourceInv, Placements, WritePlacement
  <2>2. placement'.version = placement.version + 1 /\ UNCHANGED faults  BY <1>3 DEF WritePlacement
  <2> QED  BY <2>1, <2>2, ApiAssumption DEF BoundsInv
<1>4. CASE Watching
  BY <1>1, <1>4 DEF Watching, HandlePlacementChange, HandleTgSpecChange, HandleEndpointChange, OpenWatch
<1>5. CASE Restart
  BY <1>0, <1>5, FaultKeeps DEF Restart
<1>6. ASSUME NEW k \in Kinds, Rewatch(k) PROVE BoundsInv'
  BY <1>0, <1>6, FaultKeeps DEF Rewatch
<1>7. ASSUME NEW tg \in TargetGroups, Fetching(tg) PROVE BoundsInv'
  BY <1>1, <1>7 DEF Fetching, FetchBegin, FetchSpec, FetchChangelog, UpdateTargetGroup
<1>8. ASSUME NEW tg \in TargetGroups, FetchFailed(tg) PROVE BoundsInv'
  BY <1>0, <1>8, FaultKeeps DEF FetchFailed
<1>9. CASE Polling \/ WaitTimeout
  BY <1>1, <1>9 DEF Polling, PollUpdates, GetDataplanePlacement, GetTargetGroupChanges,
     InsertPlaceholders, WakeUp, UpdateDesired, WaitTimeout
<1>10. CASE ReplyLost
  BY <1>0, <1>10, FaultKeeps DEF ReplyLost
<1>11. CASE UNCHANGED vars
  BY <1>1, <1>11 DEF vars
<1> QED  BY <1>2, <1>3, <1>4, <1>5, <1>6, <1>7, <1>8, <1>9, <1>10, <1>11 DEF Next

LEMMA CountNext == LogInv /\ CountInv /\ [Next]_vars => CountInv'
<1> SUFFICES ASSUME LogInv, CountInv, [Next]_vars PROVE CountInv'
  OBVIOUS
<1>1. CASE Writing
  <2>1. LogInv'  BY NextKeeps
  <2> QED  BY <1>1, <2>1, CountWriter DEF Writing
<1>2. CASE ~Writing
  <2>1. UNCHANGED <<etcdVars, writerVars>>
    BY <1>2 DEF Next, vars, WritePlacement, Watching, HandlePlacementChange, HandleTgSpecChange, HandleEndpointChange,
       OpenWatch, Restart, Rewatch, Fetching, FetchBegin, FetchSpec, FetchChangelog, UpdateTargetGroup, FetchFailed,
       Polling, PollUpdates, GetDataplanePlacement, GetTargetGroupChanges, InsertPlaceholders, WakeUp, UpdateDesired,
       WaitTimeout, ReplyLost
  <2> QED  BY <2>1, CountSame
<1> QED  BY <1>1, <1>2

LEMMA CountInit == Init => CountInv /\ BoundsInv
<1> SUFFICES ASSUME Init PROVE CountInv /\ BoundsInv
  OBVIOUS
<1>1. Pending("spec") = {} /\ Pending("endpoint") = {}
  BY DEF Init, ChangelogInit, Pending, IdleWriter
<1>2. IsFiniteSet({}) /\ Cardinality({}) = 0  BY FS_EmptySet
<1>3. specTs = [tg \in TargetGroups |-> -1] /\ epTs = [tg \in TargetGroups |-> -1]
      /\ requests = [spec |-> 0, endpoint |-> 0]
  BY DEF Init, ChangelogInit
<1>4. Counted({}, specTs, 0) /\ Counted({}, epTs, 0)
  BY <1>2, <1>3 DEF Counted
<1>5. CountInv
  BY <1>1, <1>3, <1>4, ChangelogAssumption DEF CountInv
<1>6. BoundsInv
  BY ChangelogAssumption, ApiAssumption DEF Init, ChangelogInit, BoundsInv, FaultKinds
<1> QED  BY <1>5, <1>6

(* Type correctness: the versions in etcd count calls of writers, an entry *)
(* of the cache is there for as long as it is being fetched, for every     *)
(* number of target groups, writers, calls, placements and faults.         *)
THEOREM ApiTypes == Spec => []TypeOK
<1> DEFINE Inv == SourceInv /\ PollInv /\ CountInv /\ BoundsInv
<1>1. Init => Inv  BY SourceInit, PollInit, CountInit
<1>2. Inv /\ [Next]_vars => Inv'
  BY SourceNext, PollNext, CountNext, BoundsNext DEF SourceInv
<1>3. Inv => TypeOK
  <2> SUFFICES ASSUME Inv PROVE TypeOK
    OBVIOUS
  <2>1. specTs \in [TargetGroups -> -1 .. MaxSpecs]
    <3>1. ASSUME NEW tg \in TargetGroups PROVE specTs[tg] \in -1 .. MaxSpecs
      <4>1. Counted(Pending("spec"), specTs, requests.spec) /\ requests.spec \in Nat /\ requests.spec <= MaxSpecs
        BY ChangelogAssumption DEF CountInv
      <4>2. Cardinality(Pending("spec")) \in Nat  BY <4>1, FS_CardinalityType DEF Counted
      <4>3. specTs[tg] + Cardinality(Pending("spec")) <= requests.spec  BY <4>1 DEF Counted
      <4>4. specTs[tg] \in Int /\ specTs[tg] >= -1  BY DEF SourceInv, LogInv, LogTypes, TimestampsAgree
      <4>5. \A t, c, n \in Int : c >= 0 /\ t + c <= n /\ n <= MaxSpecs => t <= MaxSpecs  BY ChangelogAssumption
      <4> QED  BY <4>1, <4>2, <4>3, <4>4, <4>5, ChangelogAssumption
    <3> QED  BY <3>1 DEF SourceInv, LogInv, LogTypes
  <2>2. epTs \in [TargetGroups -> -1 .. MaxEntries]
    <3>1. ASSUME NEW tg \in TargetGroups PROVE epTs[tg] \in -1 .. MaxEntries
      <4>1. Counted(Pending("endpoint"), epTs, requests.endpoint) /\ requests.endpoint \in Nat /\ requests.endpoint <= MaxEntries
        BY ChangelogAssumption DEF CountInv
      <4>2. Cardinality(Pending("endpoint")) \in Nat  BY <4>1, FS_CardinalityType DEF Counted
      <4>3. epTs[tg] + Cardinality(Pending("endpoint")) <= requests.endpoint  BY <4>1 DEF Counted
      <4>4. epTs[tg] \in Int /\ epTs[tg] >= -1  BY DEF SourceInv, LogInv, LogTypes, TimestampsAgree
      <4>5. \A t, c, n \in Int : c >= 0 /\ t + c <= n /\ n <= MaxEntries => t <= MaxEntries  BY ChangelogAssumption
      <4> QED  BY <4>1, <4>2, <4>3, <4>4, <4>5, ChangelogAssumption
    <3> QED  BY <3>1 DEF SourceInv, LogInv, LogTypes
  <2>3. faults \in [FaultKinds -> 0 .. MaxFaults]
    <3>1. faults["error"] \in Nat /\ faults["restart"] \in Nat /\ faults["rewatch"] \in Nat
          /\ faults["error"] + faults["restart"] + faults["rewatch"] <= MaxFaults
      BY DEF BoundsInv, FaultKinds
    <3>2. \A a, b, c \in Nat : a + b + c <= MaxFaults => a <= MaxFaults /\ b <= MaxFaults /\ c <= MaxFaults
      BY ChangelogAssumption
    <3>3. \A k \in FaultKinds : faults[k] \in 0 .. MaxFaults
      BY <3>1, <3>2, ChangelogAssumption DEF FaultKinds
    <3> QED  BY <3>3 DEF BoundsInv
  <2>4. ChangelogTypeOK
    BY <2>1, <2>2, <2>3 DEF ChangelogTypeOK, SourceInv, LogInv, LogTypes, CountInv
  <2>5. placement.version \in 0 .. MaxPlacements /\ placement.tgs \subseteq TargetGroups
    BY ApiAssumption DEF SourceInv, Placements, BoundsInv
  <2>6. ASSUME NEW tg \in TargetGroups
        PROVE  /\ Len(tgCache[tg]) <= 1
               /\ fetch[tg].pc \in {"none", "begin", "spec", "log", "apply"}
               /\ fetch[tg].pc # "none" => Cached(tg)
    <3>1. tgCache[tg] = <<>> \/ \E g \in Groups : tgCache[tg] = <<g>>  BY DEF SourceInv, CacheInv
    <3>2. Len(tgCache[tg]) <= 1
      <4>1. CASE tgCache[tg] = <<>>
        <5>1. Len(tgCache[tg]) = 0  BY <4>1
        <5> QED  BY <5>1
      <4>2. ASSUME NEW g \in Groups, tgCache[tg] = <<g>> PROVE Len(tgCache[tg]) <= 1
        <5>1. Len(tgCache[tg]) = 1  BY <4>2
        <5> QED  BY <5>1
      <4> QED  BY <3>1, <4>1, <4>2
    <3>3. FetchOK(changelog[tg], specTs[tg], fetch[tg]) /\ (fetch[tg].pc # "none" => Cached(tg))
      BY DEF SourceInv, FetchInv
    <3> QED  BY <3>2, <3>3 DEF FetchOK, NoFetch, Reading, Applying
  <2>7. Held \subseteq TargetGroups  BY OfMaps DEF PollInv, AgentType, Held
  <2> QED  BY <2>4, <2>5, <2>6, <2>7 DEF TypeOK
<1> QED  BY <1>1, <1>2, <1>3, PTL DEF Spec
=============================================================================
