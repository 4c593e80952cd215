------------------------------ MODULE Changelog ------------------------------
(***************************************************************************)
(* What the API processes keep in etcd for a target group: the version of  *)
(* its latest spec and the changelog of its endpoints, each guarded by a   *)
(* timestamp key that is advanced by compare-and-swap.                     *)
(*   src/control-plane/internal/etcd/api.go                                *)
(*   src/control-plane/internal/api/apirpc/upsert_*.go                     *)
(*                                                                         *)
(* A writer is one call of UpsertTargetGroupSpec or UpsertEndpoint, in any *)
(* API process: it reads the timestamp, then commits a transaction that is *)
(* conditional on it.  A commit may be applied and still return an error.  *)
(* The content of a spec is abstracted to its version, an entry of the     *)
(* changelog (an endpoint added or removed) to the writer whose call it    *)
(* is.  The watchers of one API process receive what the transactions      *)
(* write through `stream`.                                                 *)
(***************************************************************************)
EXTENDS Integers, Sequences

CONSTANTS TargetGroups, Writers,
          MaxTxRetryAttempts,    \* maxTxRetryAttempts of deps.go
          MaxSpecs, MaxEntries,  \* bounds: calls of the writers
          MaxFaults              \* bound: faults of any kind together

ASSUME ChangelogAssumption ==
    /\ MaxTxRetryAttempts \in Nat \ {0}
    /\ MaxSpecs \in Nat /\ MaxEntries \in Nat
    /\ MaxFaults \in Nat

VARIABLES specTs,     \* tgSpecTimestamp, also the version of tgSpecDesiredLatest; -1: no key
          epTs,       \* tgEndpointsTimestamp; -1: no key
          changelog,  \* tgEndpointsEvent(tg, i) is changelog[tg][i]
          writer, requests,
          faults,     \* how often a call returned an error, the API process died, a watch was cancelled
          stream      \* the watches of an API process

etcdVars == <<specTs, epTs, changelog>>
writerVars == <<writer, requests>>

Kinds == {"spec", "endpoint", "placement"}

FaultKinds == {"error", "restart", "rewatch"}

IdleWriter == [pc |-> "idle"]

(* An event reaches a watch that is open; an earlier one is not replayed.  *)
Emitted(kind, e) ==
    IF stream[kind].open THEN [stream EXCEPT ![kind].queue = Append(@, e)] ELSE stream

ChangelogInit ==
    /\ specTs = [tg \in TargetGroups |-> -1]
    /\ epTs = [tg \in TargetGroups |-> -1]
    /\ changelog = [tg \in TargetGroups |-> <<>>]
    /\ writer = [w \in Writers |-> IdleWriter]
    /\ requests = [spec |-> 0, endpoint |-> 0]
    /\ faults = [k \in FaultKinds |-> 0]

Return(w) == writer' = [writer EXCEPT ![w] = IdleWriter]
Fault(k) ==
    /\ faults["error"] + faults["restart"] + faults["rewatch"] < MaxFaults
    /\ faults' = [faults EXCEPT ![k] = @ + 1]

-----------------------------------------------------------------------------
(* The rpc handlers; requests that fail their validation change nothing.   *)
UpsertTargetGroupSpec(w, tg) ==
    /\ writer[w].pc = "idle" /\ requests.spec < MaxSpecs
    /\ requests' = [requests EXCEPT !.spec = @ + 1]
    /\ writer' = [writer EXCEPT ![w] = [pc |-> "create", kind |-> "spec", tg |-> tg,
                                        old |-> 0, left |-> MaxTxRetryAttempts]]
    /\ UNCHANGED <<etcdVars, faults, stream>>

UpsertEndpoint(w, tg) ==
    /\ writer[w].pc = "idle" /\ requests.endpoint < MaxEntries
    /\ requests' = [requests EXCEPT !.endpoint = @ + 1]
    /\ writer' = [writer EXCEPT ![w] = [pc |-> "read", kind |-> "endpoint", tg |-> tg,
                                        old |-> 0, left |-> MaxTxRetryAttempts]]
    /\ UNCHANGED <<etcdVars, faults, stream>>

(* The first transaction of SetTargetGroupSpec.  The event it writes at    *)
(* changelog key 0 names no target group, and HandleEndpointChange drops   *)
(* it; it is left out.                                                     *)
CreateKeys(tg) ==
    IF specTs[tg] = -1
    THEN /\ specTs' = [specTs EXCEPT ![tg] = 0]
         /\ epTs' = [epTs EXCEPT ![tg] = 0]
         /\ stream' = Emitted("spec", [tg |-> tg, ver |-> 0])
         /\ UNCHANGED changelog
    ELSE UNCHANGED <<etcdVars, stream>>

CreateTargetGroup(w) ==
    /\ writer[w].pc = "create"
    /\ CreateKeys(writer[w].tg)
    /\ writer' = [writer EXCEPT ![w].pc = "read"]
    /\ UNCHANGED <<requests, faults>>

CreateFailed(w) ==
    /\ writer[w].pc = "create"
    /\ Fault("error") /\ Return(w)
    /\ CreateKeys(writer[w].tg) \/ UNCHANGED <<etcdVars, stream>>
    /\ UNCHANGED requests

Timestamp(r) == IF r.kind = "spec" THEN specTs[r.tg] ELSE epTs[r.tg]

(* ExecuteIncrementally up to its first transaction.                       *)
ReadTimestamp(w) ==
    LET r == writer[w] IN
    /\ r.pc = "read"
    /\ IF Timestamp(r) = -1
       THEN Return(w)
       ELSE writer' = [writer EXCEPT ![w] = [r EXCEPT !.pc = "commit", !.old = Timestamp(r)]]
    /\ UNCHANGED <<etcdVars, requests, faults, stream>>

(* The puts of a transaction that passes its comparison.                   *)
PutEntry(log, ver, e) ==
    IF ver <= Len(log) THEN [log EXCEPT ![ver] = e] ELSE Append(log, e)

TxnPuts(w) ==
    LET r == writer[w]
        ver == r.old + 1
    IN  IF r.kind = "spec"
        THEN /\ specTs' = [specTs EXCEPT ![r.tg] = ver]
             /\ stream' = Emitted("spec", [tg |-> r.tg, ver |-> ver])
             /\ UNCHANGED <<epTs, changelog>>
        ELSE /\ epTs' = [epTs EXCEPT ![r.tg] = ver]
             /\ changelog' = [changelog EXCEPT ![r.tg] = PutEntry(@, ver, w)]
             /\ stream' = Emitted("endpoint", [tg |-> r.tg, ver |-> ver, entry |-> w])
             /\ UNCHANGED specTs

(* A transaction without its comparison, for the mutation of Compare.      *)
CompareNothing(r) == TRUE
Compare(r) == Timestamp(r) = r.old

CommitTxn(w) ==
    /\ writer[w].pc = "commit" /\ Compare(writer[w])
    /\ TxnPuts(w) /\ Return(w)
    /\ UNCHANGED <<requests, faults>>

RetryTxn(w) ==
    LET r == writer[w] IN
    /\ r.pc = "commit" /\ ~Compare(r)
    /\ IF r.left = 1
       THEN Return(w)
       ELSE writer' = [writer EXCEPT ![w] = [r EXCEPT !.old = Timestamp(r), !.left = @ - 1]]
    /\ UNCHANGED <<etcdVars, requests, faults, stream>>

(* Get or Commit returns an error; a commit may have been applied.         *)
TxnFailed(w) ==
    /\ writer[w].pc \in {"read", "commit"}
    /\ Fault("error") /\ Return(w)
    /\ \/ UNCHANGED <<etcdVars, stream>>
       \/ writer[w].pc = "commit" /\ Compare(writer[w]) /\ TxnPuts(w)
    /\ UNCHANGED requests

ChangelogNext ==
    \E w \in Writers :
        \/ \E tg \in TargetGroups : UpsertTargetGroupSpec(w, tg) \/ UpsertEndpoint(w, tg)
        \/ CreateTargetGroup(w) \/ CreateFailed(w)
        \/ ReadTimestamp(w) \/ CommitTxn(w) \/ RetryTxn(w) \/ TxnFailed(w)

-----------------------------------------------------------------------------
ChangelogTypeOK ==
    /\ specTs \in [TargetGroups -> -1 .. MaxSpecs]
    /\ epTs \in [TargetGroups -> -1 .. MaxEntries]
    /\ \A tg \in TargetGroups : changelog[tg] \in Seq(Writers)
    /\ requests \in [spec : 0 .. MaxSpecs, endpoint : 0 .. MaxEntries]
    /\ faults \in [FaultKinds -> 0 .. MaxFaults]

(* An entry of the changelog is never changed and never removed, whichever *)
(* writers race for its key and whatever they are told of their commits:   *)
(* agents and caches identify an entry by its version only (api.go:79-118).*)
ChangelogAppendOnly ==
    [][\A tg \in TargetGroups :
          /\ Len(changelog[tg]) <= Len(changelog'[tg])
          /\ \A i \in 1 .. Len(changelog[tg]) : changelog'[tg][i] = changelog[tg][i]]_changelog
=============================================================================
