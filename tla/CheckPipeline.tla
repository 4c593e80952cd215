---------------------------- MODULE CheckPipeline ----------------------------
(***************************************************************************)
(* How a health-check worker runs the checks it was given and writes what  *)
(* they find: the scheduler's heap and its timer (internal/scheduler), the *)
(* executor's goroutines (internal/executor), the thresholds of a check    *)
(* (internal/models/healthcheck.go), the notifier's channel                *)
(* (internal/notifyer) and the sender with its queue of unsent events      *)
(* (internal/sender).  The table target_statuses and the outcomes of the   *)
(* probes (pkg/strategies) are the environment.                            *)
(*                                                                         *)
(* Time is the order of the heap: its first entries, as many as due says,  *)
(* have a NextInvoke that has passed.                                      *)
(***************************************************************************)
EXTENDS Integers, Sequences, SequencesExt, FiniteSets

CONSTANTS Targets, Workers,
          Outcomes,                \* Outcomes[t]: what a probe of the target may find
          SuccessBeforePassing, FailuresBeforeCritical,
          Width,                   \* bits of the counters, 8 in the code
          ExecutorBuffer, NotifierBuffer,
          MaxAdds,                 \* bound: checks created
          MaxFaults                \* bound: failed writes

Modulus == 2 ^ Width

\* A threshold of Modulus - 1 is never reached: the counter plus one wraps to zero first.
ASSUME CheckPipelineAssumption ==
    /\ Outcomes \in [Targets -> (SUBSET BOOLEAN) \ {{}}]
    /\ Width \in Nat /\ Modulus \in Nat
    /\ SuccessBeforePassing \in 1 .. Modulus - 2
    /\ FailuresBeforeCritical \in 1 .. Modulus - 2
    /\ ExecutorBuffer \in Nat \ {0} /\ NotifierBuffer \in Nat \ {0}
    /\ MaxAdds \in Nat /\ MaxFaults \in Nat

VARIABLES checks,      \* every Executable made, by its number
          heap, due,   \* scheduler: numbers in the order of NextInvoke; how many are due
          armed,       \* scheduler: the timer will fire
          iteration,   \* scheduler: "none", "fired", or "blocked" with the heap's lock held
          input,       \* executor: inputChan
          worker,      \* executor: its goroutines
          events,      \* notifier: eventChan
          unsent,      \* sender
          db,          \* table target_statuses
          overlapped,  \* history: two goroutines have held checks of one target at a time
          faults

scheduler == <<heap, due, armed, iteration>>
sender == <<unsent, db, faults>>
vars == <<checks, scheduler, input, worker, events, sender, overlapped>>

Free == [stage |-> "free"]
NoStatus == [check |-> 0, status |-> FALSE, fresh |-> FALSE]

NewHealthCheck(t) ==
    [target |-> t, curSuccess |-> 0, curFailures |-> 0, status |-> FALSE, firstRun |-> TRUE,
     last |-> FALSE, streak |-> 0]          \* history: the last outcome and how often in a row

Init ==
    /\ checks = <<>> /\ heap = <<>> /\ due = 0 /\ armed = TRUE /\ iteration = "none"
    /\ input = <<>> /\ worker = [w \in Workers |-> Free]
    /\ events = <<>> /\ unsent = <<>> /\ db = [t \in Targets |-> NoStatus]
    /\ overlapped = FALSE /\ faults = 0
-----------------------------------------------------------------------------
(* Scheduler. *)

Scheduled(t) == \E i \in DOMAIN heap : checks[heap[i]].target = t

\* The places a NextInvoke in the future may take.
InsertNotDue(h, d, c) == {InsertAt(h, i, c) : i \in d + 1 .. Len(h) + 1}

\* Add: a target that is in the heap already keeps its check.
SchedulerAdd(t) ==
    /\ iteration # "blocked"
    /\ ~Scheduled(t) /\ Len(checks) < MaxAdds
    /\ checks' = Append(checks, NewHealthCheck(t))
    /\ heap' \in InsertNotDue(heap, due, Len(checks) + 1)
    /\ armed' = TRUE
    /\ UNCHANGED <<due, iteration, input, worker, events, sender, overlapped>>

RemoveFromHeap(i) ==
    /\ heap' = RemoveAt(heap, i)
    /\ due' = IF i <= due THEN due - 1 ELSE due

SchedulerRemove(t) ==
    /\ iteration # "blocked"
    /\ \E i \in DOMAIN heap : checks[heap[i]].target = t /\ RemoveFromHeap(i)
    /\ armed' = TRUE
    /\ UNCHANGED <<checks, iteration, input, worker, events, sender, overlapped>>

TimePasses ==
    /\ due < Len(heap) /\ due' = due + 1
    /\ UNCHANGED <<checks, heap, armed, iteration, input, worker, events, sender, overlapped>>

TimerFires ==
    /\ iteration = "none" /\ armed /\ due > 0
    /\ armed' = FALSE /\ iteration' = "fired"
    /\ UNCHANGED <<checks, heap, due, input, worker, events, sender, overlapped>>

UpdateTop ==
    /\ heap' \in InsertNotDue(Tail(heap), due - 1, Head(heap))
    /\ due' = due - 1

\* Mutant: the timer is not set again after a check was given to the executor.
RunIterationNoReset ==
    /\ iteration # "none"
    /\ IF due > 0
       THEN /\ Len(input) < ExecutorBuffer
            /\ input' = Append(input, Head(heap))
            /\ UpdateTop
            /\ UNCHANGED armed
       ELSE armed' = TRUE /\ UNCHANGED <<heap, due, input>>
    /\ iteration' = "none"
    /\ UNCHANGED <<checks, worker, events, sender, overlapped>>

\* runIteration: the first check, if it is due, goes to the executor and updateTop moves it one
\* interval ahead.
RunIteration ==
    /\ iteration # "none"
    /\ IF due > 0
       THEN /\ Len(input) < ExecutorBuffer
            /\ input' = Append(input, Head(heap))
            /\ UpdateTop
       ELSE UNCHANGED <<heap, due, input>>
    /\ armed' = TRUE
    /\ iteration' = "none"
    /\ UNCHANGED <<checks, worker, events, sender, overlapped>>

\* ExecuteHealthCheck blocks on a full channel, and the scheduler keeps the heap's lock meanwhile.
BlockOnExecutor ==
    /\ iteration = "fired" /\ due > 0 /\ Len(input) = ExecutorBuffer
    /\ iteration' = "blocked"
    /\ UNCHANGED <<checks, heap, due, armed, input, worker, events, sender, overlapped>>
-----------------------------------------------------------------------------
(* Executor. *)

Busy(t) == {w \in Workers : worker[w].stage # "free" /\ checks[worker[w].check].target = t}

TakeTask(w) ==
    /\ worker[w].stage = "free" /\ input # <<>>
    /\ worker' = [worker EXCEPT ![w] = [stage |-> "run", check |-> Head(input)]]
    /\ input' = Tail(input)
    /\ overlapped' = (overlapped \/ Busy(checks[Head(input)].target) # {})
    /\ UNCHANGED <<checks, scheduler, events, sender>>

Streak(c, ok) == IF c.streak > 0 /\ c.last = ok
                 THEN Min({c.streak + 1, Max({SuccessBeforePassing, FailuresBeforeCritical}) + 1})
                 ELSE 1

\* Mutant: a failure leaves the successes counted so far.
OnFailureKeepsSuccesses(c) ==
    LET failures == (c.curFailures + 1) % Modulus
    IN  [c EXCEPT !.curFailures = failures,
                  !.status = @ /\ ~(FailuresBeforeCritical < (failures + 1) % Modulus),
                  !.firstRun = FALSE, !.last = FALSE, !.streak = Streak(c, FALSE)]

\* Mutant: one success too many is asked for.
OnSuccessOffByOne(c) ==
    LET successes == (c.curSuccess + 1) % Modulus
    IN  [c EXCEPT !.curSuccess = successes, !.curFailures = 0,
                  !.status = @ \/ SuccessBeforePassing < successes,
                  !.firstRun = FALSE, !.last = TRUE, !.streak = Streak(c, TRUE)]

OnSuccess(c) ==
    LET successes == (c.curSuccess + 1) % Modulus
    IN  [c EXCEPT !.curSuccess = successes, !.curFailures = 0,
                  !.status = @ \/ SuccessBeforePassing < (successes + 1) % Modulus,
                  !.firstRun = FALSE, !.last = TRUE, !.streak = Streak(c, TRUE)]

OnFailure(c) ==
    LET failures == (c.curFailures + 1) % Modulus
    IN  [c EXCEPT !.curFailures = failures, !.curSuccess = 0,
                  !.status = @ /\ ~(FailuresBeforeCritical < (failures + 1) % Modulus),
                  !.firstRun = FALSE, !.last = FALSE, !.streak = Streak(c, FALSE)]

\* Mutant: the first result is not reported.
ChangedStatus(old, new) == old.status # new.status

\* Mutant: only the first result is reported.
ChangedFirst(old, new) == old.firstRun

Changed(old, new) == old.status # new.status \/ old.firstRun

DoHealthCheckIteration(w) ==
    /\ worker[w].stage = "run"
    /\ LET c == checks[worker[w].check]
       IN  \E ok \in Outcomes[c.target] :
             LET new == IF ok THEN OnSuccess(c) ELSE OnFailure(c)
             IN  /\ checks' = [checks EXCEPT ![worker[w].check] = new]
                 /\ worker' = [worker EXCEPT ![w] = IF Changed(c, new)
                                                    THEN [stage |-> "changed", check |-> worker[w].check]
                                                    ELSE Free]
    /\ UNCHANGED <<scheduler, input, events, sender, overlapped>>

\* History: a newer report of the same check makes an event stale.
Outdate(e, c) == IF e.check = c THEN [e EXCEPT !.fresh = FALSE] ELSE e
OutdateAll(q, c) == [i \in DOMAIN q |-> Outdate(q[i], c)]

Info(w) ==
    /\ worker[w].stage = "changed"
    /\ LET c == worker[w].check
           event == [check |-> c, status |-> checks[c].status, fresh |-> TRUE]
       IN  /\ worker' = [x \in Workers |->
                 IF x = w THEN [stage |-> "notify", check |-> c, event |-> event]
                 ELSE IF worker[x].stage = "notify" THEN [worker[x] EXCEPT !.event = Outdate(@, c)]
                 ELSE worker[x]]
           /\ events' = OutdateAll(events, c)
           /\ unsent' = OutdateAll(unsent, c)
           /\ db' = [t \in Targets |-> Outdate(db[t], c)]
    /\ UNCHANGED <<checks, scheduler, input, faults, overlapped>>

\* Mutant: an event that finds the channel full is discarded.
NotifyOrDiscard(w) ==
    /\ worker[w].stage = "notify"
    /\ events' = IF Len(events) < NotifierBuffer THEN Append(events, worker[w].event) ELSE events
    /\ worker' = [worker EXCEPT ![w] = Free]
    /\ UNCHANGED <<checks, scheduler, input, sender, overlapped>>

\* Mutant: the goroutine does not wait for room.
NotifyAtOnce(w) ==
    /\ worker[w].stage = "notify"
    /\ events' = Append(events, worker[w].event)
    /\ worker' = [worker EXCEPT ![w] = Free]
    /\ UNCHANGED <<checks, scheduler, input, sender, overlapped>>

\* A full channel blocks the goroutine.
NotifyHcStatusChanged(w) ==
    /\ worker[w].stage = "notify" /\ Len(events) < NotifierBuffer
    /\ events' = Append(events, worker[w].event)
    /\ worker' = [worker EXCEPT ![w] = Free]
    /\ UNCHANGED <<checks, scheduler, input, sender, overlapped>>
-----------------------------------------------------------------------------
(* Sender. *)

\* The rows after writing the events in order: the last one of a target stays.
UpdateTargetsStatuses(batch) ==
    [t \in Targets |->
        LET own == {i \in DOMAIN batch : checks[batch[i].check].target = t}
        IN  IF own = {} THEN db[t] ELSE batch[Max(own)]]

SendEvent ==
    /\ events # <<>>
    /\ events' = Tail(events)
    /\ db' = UpdateTargetsStatuses(<<Head(events)>>)
    /\ UNCHANGED <<checks, scheduler, input, worker, unsent, faults, overlapped>>

\* Three attempts failed; the last one may have been applied.
SendEventFails ==
    /\ events # <<>> /\ faults < MaxFaults
    /\ events' = Tail(events)
    /\ unsent' = Append(unsent, Head(events))
    /\ db' \in {db, UpdateTargetsStatuses(<<Head(events)>>)}
    /\ faults' = faults + 1
    /\ UNCHANGED <<checks, scheduler, input, worker, overlapped>>

\* Mutant: the events sent stay in the queue.
KeepAll(q) == q

Cleared(q) == <<>>

SendUnsentEvents ==
    /\ unsent # <<>>
    /\ db' = UpdateTargetsStatuses(unsent)
    /\ unsent' = Cleared(unsent)
    /\ UNCHANGED <<checks, scheduler, input, worker, events, faults, overlapped>>

\* The statement after done others fails, and the database takes back the whole batch.
SendUnsentEventsFails ==
    /\ unsent # <<>> /\ faults < MaxFaults
    /\ \E done \in 0 .. Len(unsent) - 1 : unsent' = SubSeq(unsent, done + 1, Len(unsent))
    /\ faults' = faults + 1
    /\ UNCHANGED <<checks, scheduler, input, worker, events, db, overlapped>>
-----------------------------------------------------------------------------
SchedulerStep == TimerFires \/ RunIteration \/ BlockOnExecutor

WorkerStep(w) == TakeTask(w) \/ DoHealthCheckIteration(w) \/ Info(w) \/ NotifyHcStatusChanged(w)

Next ==
    \/ \E t \in Targets : SchedulerAdd(t) \/ SchedulerRemove(t)
    \/ TimePasses \/ SchedulerStep
    \/ \E w \in Workers : WorkerStep(w)
    \/ SendEvent \/ SendEventFails \/ SendUnsentEvents \/ SendUnsentEventsFails

\* Time goes on, the goroutines keep running, and the sender's select, which has a ticker and a
\* channel to choose from, serves both; writes fail finitely often.
Fairness ==
    /\ WF_vars(TimePasses) /\ WF_vars(SchedulerStep)
    /\ \A w \in Workers : WF_vars(WorkerStep(w))
    /\ WF_vars(SendEvent) /\ WF_vars(SendUnsentEvents)

Spec == Init /\ [][Next]_vars /\ Fairness
-----------------------------------------------------------------------------
Pending == ToSet(events) \cup ToSet(unsent)
           \cup {worker[w].event : w \in {x \in Workers : worker[x].stage = "notify"}}
Reports == Pending \cup {db[t] : t \in Targets}

\* A change of the check that its goroutine has not read back yet.
Unread(c) == \E w \in Workers : worker[w].stage = "changed" /\ worker[w].check = c

Event == [check : 0 .. MaxAdds, status : BOOLEAN, fresh : BOOLEAN]

\* The state stays in range; in particular the heap never holds two checks of one target and the
\* channels keep their capacity (heap_scheduller.go Add, executor.go, chan_notifyer.go).
TypeOK ==
    /\ \A c \in DOMAIN checks : /\ checks[c].target \in Targets
                                /\ checks[c].curSuccess \in 0 .. Modulus - 1
                                /\ checks[c].curFailures \in 0 .. Modulus - 1
    /\ \A i, j \in DOMAIN heap : i # j => checks[heap[i]].target # checks[heap[j]].target
    /\ due \in 0 .. Len(heap) /\ armed \in BOOLEAN /\ iteration \in {"none", "fired", "blocked"}
    /\ Len(input) <= ExecutorBuffer /\ Len(events) <= NotifierBuffer
    /\ Reports \subseteq Event

\* A check is up when its last SuccessBeforePassing probes all succeeded and down when its last
\* FailuresBeforeCritical all failed, however long the counters have been running (healthcheck.go).
Hysteresis ==
    \A c \in DOMAIN checks :
        /\ checks[c].last /\ checks[c].streak >= SuccessBeforePassing => checks[c].status
        /\ ~checks[c].last /\ checks[c].streak >= FailuresBeforeCritical => ~checks[c].status

\* A check's status turns only on such a streak, whichever goroutines ran the probes.
TurnsOnStreak ==
    [][\A c \in DOMAIN checks :
          checks'[c].status # checks[c].status =>
             /\ checks'[c].last = checks'[c].status
             /\ checks'[c].streak = IF checks'[c].last THEN SuccessBeforePassing
                                    ELSE FailuresBeforeCritical]_vars

\* The newest report of a check, wherever it is on its way to the table, says what the check found,
\* although the status is read back after the lock was given up (executor.go, Info).
NewestReportIsCurrent ==
    \A e \in Reports : e.fresh /\ ~Unread(e.check) => e.status = checks[e.check].status

\* A check's newest report is on its way or in the table: it is only lost, or overwritten by an older
\* one, when two goroutines checked the target at a time, a write failed, or its row is of a later check.
Reported(c) ==
    checks[c].firstRun \/ Unread(c) \/ \E e \in Reports : e.check = c /\ e.fresh
NewestReportKept ==
    ~overlapped /\ faults = 0 =>
        \A c \in DOMAIN checks : Reported(c) \/ db[checks[c].target].check > c

\* A scheduled check is run again and again: the timer is always set and no check is passed over.
EveryCheckRuns ==
    \A t \in Targets : []<>(~Scheduled(t) \/ Busy(t) # {})

\* The events that could not be written do not stay in the sender's queue.
UnsentDrains == []<>(unsent = <<>>)

\* When a check's status has settled, the table ends up with it, under the same conditions.
Settled(t, s) ==
    /\ ~overlapped /\ faults = 0 /\ Scheduled(t)
    /\ \A i \in DOMAIN heap : LET c == checks[heap[i]] IN c.target = t => ~c.firstRun /\ c.status = s
StatusArrives ==
    \A t \in Targets, s \in BOOLEAN : <>[]Settled(t, s) => <>[](db[t].check > 0 /\ db[t].status = s)
=============================================================================
