------------------------ MODULE CheckPipelineProofs ------------------------
(***************************************************************************)
(* Proofs about module CheckPipeline, for every set of targets, number of  *)
(* goroutines, capacity of the channels, width of the counters and         *)
(* threshold below the wrap.                                               *)
(*                                                                         *)
(* First the thresholds of a check (CountersInv).  Then the shape of the   *)
(* scheduler's heap and of every report (HeapInv, ReportInv), that the     *)
(* newest report says what its check found, and the order of the reports   *)
(* and of the work of a target (Order), from which no report is lost       *)
(* (KeptInv).                                                              *)
(***************************************************************************)
EXTENDS CheckPipeline, NaturalsInduction, WellFoundedInduction, TLAPS

S == SuccessBeforePassing
F == FailuresBeforeCritical

Check == [target : Targets, curSuccess : Nat, curFailures : Nat, status : BOOLEAN,
          firstRun : BOOLEAN, last : BOOLEAN, streak : Int]

(* The counters against the streak.  Up to its threshold a streak is what  *)
(* the counter says; from there on the counter may have wrapped, and the   *)
(* status has turned.                                                      *)
Counted(c) ==
    /\ c.streak >= 0
    /\ c.streak = 0 => ~c.last /\ ~c.status /\ c.curSuccess = 0
    /\ c.last => /\ c.curFailures = 0
                 /\ c.streak < S => c.curSuccess = c.streak
                 /\ c.streak >= S => c.status
    /\ ~c.last => /\ c.curSuccess = 0
                  /\ c.streak < F => c.curFailures = c.streak
                  /\ c.streak >= F => ~c.status

CountersInv ==
    /\ checks \in Seq(Check)
    /\ \A i \in DOMAIN checks : Counted(checks[i])

Turned(old, new) ==
    new.status # old.status =>
        /\ new.last = new.status
        /\ new.streak = IF new.last THEN S ELSE F

-----------------------------------------------------------------------------
LEMMA Thresholds ==
  /\ Modulus \in Nat /\ S \in Nat /\ F \in Nat
  /\ S >= 1 /\ F >= 1 /\ S + 2 <= Modulus /\ F + 2 <= Modulus
  BY CheckPipelineAssumption DEF S, F

LEMMA Remainders ==
  ASSUME NEW m \in Nat, m > 0, NEW a \in Nat
  PROVE  a % m \in Nat /\ (a < m => a % m = a)
  OBVIOUS

LEMMA MinOfTwo ==
  ASSUME NEW a \in Int, NEW b \in Int
  PROVE  Min({a, b}) = IF a <= b THEN a ELSE b
  BY DEF Min

LEMMA MaxOfTwo ==
  ASSUME NEW a \in Int, NEW b \in Int
  PROVE  Max({a, b}) = IF a <= b THEN b ELSE a
  BY DEF Max

(* A streak is one longer, or begins, and is not cut off below a threshold.*)
LEMMA StreakGrows ==
  ASSUME NEW c \in Check, Counted(c), NEW ok \in BOOLEAN
  PROVE  /\ Streak(c, ok) \in Int /\ Streak(c, ok) >= 1
         /\ c.streak = 0 \/ c.last # ok => Streak(c, ok) = 1
         /\ c.streak > 0 /\ c.last = ok /\ c.streak < S => Streak(c, ok) = c.streak + 1
         /\ c.streak > 0 /\ c.last = ok /\ c.streak < F => Streak(c, ok) = c.streak + 1
         /\ c.streak > 0 /\ c.last = ok /\ c.streak >= S => Streak(c, ok) > S
         /\ c.streak > 0 /\ c.last = ok /\ c.streak >= F => Streak(c, ok) > F
<1> DEFINE cap == Max({S, F}) + 1
<1>1. cap \in Int /\ cap > S /\ cap > F
  BY Thresholds, MaxOfTwo
<1>2. c.streak \in Int  BY DEF Check
<1>3. CASE c.streak > 0 /\ c.last = ok
  <2>1. Streak(c, ok) = Min({c.streak + 1, cap})
    BY <1>3 DEF Streak, S, F
  <2> HIDE DEF cap
  <2>2. Streak(c, ok) = IF c.streak + 1 <= cap THEN c.streak + 1 ELSE cap
    BY <1>1, <1>2, <2>1, MinOfTwo
  <2> QED  BY <1>1, <1>2, <1>3, <2>2, Thresholds
<1>4. CASE ~(c.streak > 0 /\ c.last = ok)
  BY <1>2, <1>4, Thresholds DEF Streak, Counted
<1> QED  BY <1>3, <1>4

(* What the comparison with a counter says.  Below the threshold nothing   *)
(* has wrapped.                                                            *)
LEMMA CounterBelow ==
  ASSUME NEW t \in {S, F}, NEW n \in Nat
  PROVE  LET m == (n + 1) % Modulus IN
         /\ m \in Nat
         /\ n < t => m = n + 1 /\ (t < (m + 1) % Modulus <=> n + 1 = t)
<1>1. t \in Nat /\ t + 2 <= Modulus /\ Modulus \in Nat  BY Thresholds
<1>2. (n + 1) % Modulus \in Nat  BY <1>1, Remainders
<1>3. ASSUME n < t PROVE (n + 1) % Modulus = n + 1 /\ (n + 1 + 1) % Modulus = n + 2
  <2>1. n + 1 \in Nat /\ n + 2 \in Nat /\ n + 1 < Modulus /\ n + 2 < Modulus  BY <1>1, <1>3
  <2>2. (n + 1) % Modulus = n + 1  BY <1>1, <2>1, Remainders
  <2>3. (n + 2) % Modulus = n + 2  BY <1>1, <2>1, Remainders
  <2>4. n + 1 + 1 = n + 2  OBVIOUS
  <2> QED  BY <2>2, <2>3, <2>4
<1> QED  BY <1>1, <1>2, <1>3

LEMMA SuccessCounts ==
  ASSUME NEW c \in Check, Counted(c)
  PROVE  OnSuccess(c) \in Check /\ Counted(OnSuccess(c)) /\ Turned(c, OnSuccess(c))
<1> DEFINE n == (c.curSuccess + 1) % Modulus
           k == Streak(c, TRUE)
           turns == S < (n + 1) % Modulus
           up == c.status \/ turns
           d == OnSuccess(c)
<1>1. c.streak \in Int /\ c.curSuccess \in Nat /\ c.status \in BOOLEAN /\ c.last \in BOOLEAN
  BY DEF Check
<1>2. n \in Nat /\ (c.curSuccess < S => n = c.curSuccess + 1 /\ (turns <=> c.curSuccess + 1 = S))
  BY <1>1, CounterBelow
<1>3. d = [c EXCEPT !.curSuccess = n, !.curFailures = 0, !.status = up,
                    !.firstRun = FALSE, !.last = TRUE, !.streak = k]
  BY DEF OnSuccess, S
<1>4. /\ k \in Int /\ k >= 1
      /\ c.streak = 0 \/ c.last # TRUE => k = 1
      /\ c.streak > 0 /\ c.last = TRUE /\ c.streak < S => k = c.streak + 1
      /\ c.streak > 0 /\ c.last = TRUE /\ c.streak >= S => k > S
  BY StreakGrows
<1>5. up \in BOOLEAN  OBVIOUS
<1> HIDE DEF n, k, up, d, turns
<1>6. d \in Check  BY <1>2, <1>3, <1>4, <1>5 DEF Check
<1>7. /\ d.curSuccess = n /\ d.curFailures = 0 /\ d.status = up /\ d.last = TRUE /\ d.streak = k
  BY <1>3 DEF Check
<1>8. ASSUME ~(c.last /\ c.streak > 0) PROVE k = 1 /\ c.curSuccess = 0
  <2>1. c.streak = 0 \/ ~c.last  BY <1>1, <1>8 DEF Counted
  <2>2. c.curSuccess = 0  BY <2>1 DEF Counted
  <2>3. ~c.last => c.last # TRUE  OBVIOUS
  <2> QED  BY <1>4, <2>1, <2>2, <2>3
<1>9. k < S => n = k
  <2>1. CASE c.last /\ c.streak > 0
    BY <1>1, <1>2, <1>4, <2>1, Thresholds DEF Counted
  <2>2. CASE ~(c.last /\ c.streak > 0)
    BY <1>1, <1>2, <1>8, <2>2, Thresholds
  <2> QED  BY <2>1, <2>2
<1>10. (k >= S => up) /\ (up # c.status => k = S)
  <2>1. CASE c.last /\ c.streak > 0
    BY <1>1, <1>2, <1>4, <2>1, Thresholds DEF Counted, up
  <2>2. CASE ~(c.last /\ c.streak > 0)
    BY <1>1, <1>2, <1>8, <2>2, Thresholds DEF up
  <2> QED  BY <2>1, <2>2
<1>11. Counted(d)
  BY <1>4, <1>7, <1>9, <1>10 DEF Counted
<1>12. Turned(c, d)
  BY <1>1, <1>5, <1>7, <1>10 DEF Turned, up
<1> QED  BY <1>6, <1>11, <1>12 DEF d

LEMMA FailureCounts ==
  ASSUME NEW c \in Check, Counted(c)
  PROVE  OnFailure(c) \in Check /\ Counted(OnFailure(c)) /\ Turned(c, OnFailure(c))
<1> DEFINE n == (c.curFailures + 1) % Modulus
           k == Streak(c, FALSE)
           turns == F < (n + 1) % Modulus
           up == c.status /\ ~turns
           d == OnFailure(c)
<1>1. c.streak \in Int /\ c.curFailures \in Nat /\ c.status \in BOOLEAN /\ c.last \in BOOLEAN
  BY DEF Check
<1>2. n \in Nat /\ (c.curFailures < F => n = c.curFailures + 1 /\ (turns <=> c.curFailures + 1 = F))
  BY <1>1, CounterBelow
<1>3. d = [c EXCEPT !.curFailures = n, !.curSuccess = 0, !.status = up,
                    !.firstRun = FALSE, !.last = FALSE, !.streak = k]
  BY DEF OnFailure, F
<1>4. /\ k \in Int /\ k >= 1
      /\ c.streak = 0 \/ c.last # FALSE => k = 1
      /\ c.streak > 0 /\ c.last = FALSE /\ c.streak < F => k = c.streak + 1
      /\ c.streak > 0 /\ c.last = FALSE /\ c.streak >= F => k > F
  BY StreakGrows
<1>5. up \in BOOLEAN  OBVIOUS
<1> HIDE DEF n, k, up, d, turns
<1>6. d \in Check  BY <1>2, <1>3, <1>4, <1>5 DEF Check
<1>7. /\ d.curSuccess = 0 /\ d.curFailures = n /\ d.status = up /\ d.last = FALSE /\ d.streak = k
  BY <1>3 DEF Check
<1>8. ASSUME ~(~c.last /\ c.streak > 0) PROVE k = 1 /\ c.curFailures = 0
  <2>1. c.streak = 0 \/ c.last  BY <1>1, <1>8 DEF Counted
  <2>2. c.curFailures = 0  BY <1>1, <2>1, Thresholds DEF Counted
  <2>3. c.last => c.last # FALSE  OBVIOUS
  <2> QED  BY <1>4, <2>1, <2>2, <2>3
<1>9. k < F => n = k
  <2>1. CASE ~c.last /\ c.streak > 0
    BY <1>1, <1>2, <1>4, <2>1, Thresholds DEF Counted
  <2>2. CASE ~(~c.last /\ c.streak > 0)
    BY <1>1, <1>2, <1>8, <2>2, Thresholds
  <2> QED  BY <2>1, <2>2
<1>10. (k >= F => ~up) /\ (up # c.status => k = F)
  <2>1. CASE ~c.last /\ c.streak > 0
    BY <1>1, <1>2, <1>4, <2>1, Thresholds DEF Counted, up
  <2>2. CASE ~(~c.last /\ c.streak > 0)
    BY <1>1, <1>2, <1>8, <2>2, Thresholds DEF up
  <2> QED  BY <2>1, <2>2
<1>11. Counted(d)
  BY <1>4, <1>7, <1>9, <1>10 DEF Counted
<1>12. Turned(c, d)
  BY <1>1, <1>5, <1>7, <1>10 DEF Turned, up
<1> QED  BY <1>6, <1>11, <1>12 DEF d

-----------------------------------------------------------------------------
LEMMA CountersInit == Init => CountersInv
  BY DEF Init, CountersInv

KeptOrTurned == \A i \in DOMAIN checks : Turned(checks[i], checks'[i])

(* Only a probe and the creation of a check change the checks.             *)
LEMMA CountersUnchanged ==
  ASSUME CountersInv, UNCHANGED checks
  PROVE  CountersInv' /\ KeptOrTurned
  BY DEF CountersInv, KeptOrTurned, Turned

LEMMA AddCounts ==
  ASSUME CountersInv, NEW t \in Targets, SchedulerAdd(t)
  PROVE  CountersInv' /\ KeptOrTurned
<1> DEFINE c == NewHealthCheck(t)
<1>1. c \in Check /\ Counted(c)
  BY Thresholds DEF NewHealthCheck, Check, Counted
<1>2. checks' = Append(checks, c)  BY DEF SchedulerAdd
<1> HIDE DEF c
<1>3. checks' \in Seq(Check) /\ Len(checks') = Len(checks) + 1
  BY <1>1, <1>2 DEF CountersInv
<1>4. \A i \in DOMAIN checks : i \in DOMAIN checks' /\ checks'[i] = checks[i]
  BY <1>2 DEF CountersInv
<1>5. \A i \in DOMAIN checks' : i \in DOMAIN checks \/ checks'[i] = c
  BY <1>2 DEF CountersInv
<1> QED  BY <1>1, <1>3, <1>4, <1>5 DEF CountersInv, KeptOrTurned, Turned

LEMMA ProbeCounts ==
  ASSUME CountersInv, NEW w \in Workers, DoHealthCheckIteration(w)
  PROVE  CountersInv' /\ KeptOrTurned
<1> DEFINE i == worker[w].check
           c == checks[i]
<1>1. PICK new \in {OnSuccess(c), OnFailure(c)} : checks' = [checks EXCEPT ![i] = new]
  BY DEF DoHealthCheckIteration
<1>2. i \in DOMAIN checks => new \in Check /\ Counted(new) /\ Turned(c, new)
  BY <1>1, SuccessCounts, FailureCounts DEF CountersInv
<1> HIDE DEF i, c
<1>3. checks' \in Seq(Check) /\ DOMAIN checks' = DOMAIN checks
  <2>1. CASE i \in DOMAIN checks  BY <1>1, <1>2, <2>1 DEF CountersInv
  <2>2. CASE i \notin DOMAIN checks
    <3>1. checks' = checks  BY <1>1, <2>2 DEF CountersInv
    <3> QED  BY <3>1 DEF CountersInv
  <2> QED  BY <2>1, <2>2
<1>4. \A j \in DOMAIN checks : checks'[j] = IF j = i THEN new ELSE checks[j]
  BY <1>1 DEF CountersInv
<1> QED  BY <1>2, <1>3, <1>4 DEF CountersInv, KeptOrTurned, Turned, c

LEMMA NextCounts == CountersInv /\ [Next]_vars => CountersInv' /\ KeptOrTurned
<1> SUFFICES ASSUME CountersInv, [Next]_vars PROVE CountersInv' /\ KeptOrTurned
  OBVIOUS
<1>1. CASE \E t \in Targets : SchedulerAdd(t)
  BY <1>1, AddCounts
<1>2. CASE \E t \in Targets : SchedulerRemove(t)
  BY <1>2, CountersUnchanged DEF SchedulerRemove
<1>3. CASE TimePasses \/ SchedulerStep
  BY <1>3, CountersUnchanged DEF TimePasses, SchedulerStep, TimerFires, RunIteration, BlockOnExecutor
<1>4. ASSUME NEW w \in Workers, WorkerStep(w) PROVE CountersInv' /\ KeptOrTurned
  <2>1. CASE DoHealthCheckIteration(w)  BY <2>1, ProbeCounts
  <2>2. CASE TakeTask(w) \/ Info(w) \/ NotifyHcStatusChanged(w)
    BY <2>2, CountersUnchanged DEF TakeTask, Info, NotifyHcStatusChanged
  <2> QED  BY <1>4, <2>1, <2>2 DEF WorkerStep
<1>5. CASE SendEvent \/ SendEventFails \/ SendUnsentEvents \/ SendUnsentEventsFails
  BY <1>5, CountersUnchanged DEF SendEvent, SendEventFails, SendUnsentEvents, SendUnsentEventsFails
<1>6. CASE UNCHANGED vars
  BY <1>6, CountersUnchanged DEF vars
<1> QED  BY <1>1, <1>2, <1>3, <1>4, <1>5, <1>6 DEF Next

LEMMA AlwaysCounted == Spec => []CountersInv
  BY CountersInit, NextCounts, PTL DEF Spec

(* A check whose last SuccessBeforePassing probes succeeded is up and one  *)
(* whose last FailuresBeforeCritical failed is down, for every width of    *)
(* the counters and every number of probes (healthcheck.go:63-94).         *)
THEOREM AlwaysHysteresis == Spec => []Hysteresis
<1>1. CountersInv => Hysteresis
  BY Thresholds DEF CountersInv, Counted, Hysteresis, S, F, Check
<1> QED  BY <1>1, AlwaysCounted, PTL

(* A status turns in no other case, whichever goroutines ran the probes.   *)
THEOREM AlwaysTurnsOnStreak == Spec => TurnsOnStreak
<1>1. CountersInv /\ [Next]_vars =>
        [\A c \in DOMAIN checks :
            checks'[c].status # checks[c].status =>
               /\ checks'[c].last = checks'[c].status
               /\ checks'[c].streak = IF checks'[c].last THEN SuccessBeforePassing
                                      ELSE FailuresBeforeCritical]_vars
  BY NextCounts DEF KeptOrTurned, Turned, S, F
<1> QED  BY <1>1, AlwaysCounted, PTL DEF Spec, TurnsOnStreak

-----------------------------------------------------------------------------
(* What the queues and goroutines hold when n checks were made.            *)
Ev(n) == [check : 1 .. n, status : BOOLEAN, fresh : BOOLEAN]

WorkerStates(n) ==
    {Free} \cup [stage : {"run", "changed"}, check : 1 .. n]
    \cup {r \in [stage : {"notify"}, check : 1 .. n, event : Ev(n)] : r.event.check = r.check}

TargetOf(c) == checks[c].target

Apart(cs, h) == \A i, j \in DOMAIN h : i # j => cs[h[i]].target # cs[h[j]].target

HeapInv ==
    /\ Len(checks) <= MaxAdds
    /\ heap \in Seq(1 .. Len(checks)) /\ input \in Seq(1 .. Len(checks))
    /\ Apart(checks, heap)
    /\ due \in Nat /\ due <= Len(heap) /\ armed \in BOOLEAN /\ iteration \in {"none", "fired", "blocked"}
    /\ Len(input) <= ExecutorBuffer

ReportInv ==
    /\ worker \in [Workers -> WorkerStates(Len(checks))]
    /\ events \in Seq(Ev(Len(checks))) /\ Len(events) <= NotifierBuffer
    /\ unsent \in Seq(Ev(Len(checks)))
    /\ db \in [Targets -> Ev(Len(checks)) \cup {NoStatus}]
    /\ \A t \in Targets : db[t].check > 0 => TargetOf(db[t].check) = t

BoundsInv == \A i \in DOMAIN checks : checks[i].curSuccess < Modulus /\ checks[i].curFailures < Modulus

(* The reports and the work of a target in the order of its checks: the    *)
(* row, the events of the channel, the goroutine that has its check, the   *)
(* input of the executor, the heap.  A fresh report is the last one of its *)
(* check.                                                                  *)
Precedes(e, f) == e.check <= f.check /\ (e.fresh => e.check < f.check)

Working == {w \in Workers : worker[w].stage # "free"}
Notifying == {w \in Workers : worker[w].stage = "notify"}

OneWorker == \A w, x \in Working : w # x => TargetOf(worker[w].check) # TargetOf(worker[x].check)

RowFirst == \A i \in DOMAIN events : Precedes(db[TargetOf(events[i].check)], events[i])

EventsInOrder ==
    \A i, j \in DOMAIN events :
        i < j /\ TargetOf(events[i].check) = TargetOf(events[j].check) => Precedes(events[i], events[j])

NotesLast ==
    \A w \in Notifying :
        /\ Precedes(db[TargetOf(worker[w].check)], worker[w].event)
        /\ \A i \in DOMAIN events :
              TargetOf(events[i].check) = TargetOf(worker[w].check) => Precedes(events[i], worker[w].event)

Held == {worker[w].check : w \in Working}
Waiting == ToSet(input) \cup ToSet(heap)

RowNotAfter == \A t \in Targets, y \in Held \cup Waiting : TargetOf(y) = t => db[t].check <= y

EventsNotAfter ==
    \A i \in DOMAIN events, y \in Held \cup Waiting :
        TargetOf(y) = TargetOf(events[i].check) => events[i].check <= y

HeldNotAfter == \A c \in Held, y \in Waiting : TargetOf(y) = TargetOf(c) => c <= y

InputInOrder == \A i, j \in DOMAIN input : i < j /\ TargetOf(input[i]) = TargetOf(input[j]) => input[i] <= input[j]

InputNotAfter == \A c \in ToSet(input), y \in ToSet(heap) : TargetOf(y) = TargetOf(c) => c <= y

EventOrder == RowFirst /\ EventsInOrder /\ NotesLast
WorkOrder == RowNotAfter /\ EventsNotAfter /\ HeldNotAfter /\ InputInOrder /\ InputNotAfter
Order == OneWorker /\ EventOrder /\ WorkOrder

OrderInv ==
    /\ overlapped \in BOOLEAN
    /\ faults \in Nat
    /\ faults = 0 => unsent = <<>>
    /\ ~overlapped /\ faults = 0 => Order

KeptInv == ~overlapped /\ faults = 0 =>
    \A c \in DOMAIN checks : Reported(c) \/ db[TargetOf(c)].check > c

-----------------------------------------------------------------------------
(* Checks are only added, and keep their targets.                          *)
Kept(old, new) ==
    /\ Len(old) <= Len(new)
    /\ \A i \in 1 .. Len(old) : i \in DOMAIN new /\ new[i].target = old[i].target

LEMMA ProbeSteps ==
  ASSUME CountersInv, NEW w \in Workers, DoHealthCheckIteration(w), worker[w].check \in DOMAIN checks
  PROVE  \E new \in Check :
            LET c == checks[worker[w].check] IN
            /\ new.target = c.target /\ new.curSuccess < Modulus /\ new.curFailures < Modulus
            /\ ~new.firstRun
            /\ checks' = [checks EXCEPT ![worker[w].check] = new]
            /\ worker' = [worker EXCEPT ![w] = IF Changed(c, new)
                                               THEN [stage |-> "changed", check |-> worker[w].check] ELSE Free]
<1> DEFINE i == worker[w].check
           c == checks[i]
<1>1. c \in Check /\ Counted(c)  BY DEF CountersInv
<1>2. PICK new \in {OnSuccess(c), OnFailure(c)} :
        /\ checks' = [checks EXCEPT ![i] = new]
        /\ worker' = [worker EXCEPT ![w] = IF Changed(c, new)
                                           THEN [stage |-> "changed", check |-> worker[w].check] ELSE Free]
  BY DEF DoHealthCheckIteration
<1>3. new \in Check  BY <1>1, <1>2, SuccessCounts, FailureCounts
<1>4. \A n \in Nat : n % Modulus < Modulus /\ 0 < Modulus  BY Thresholds
<1>5. c.curSuccess + 1 \in Nat /\ c.curFailures + 1 \in Nat  BY <1>1 DEF Check
<1> HIDE DEF c
<1>6. /\ OnSuccess(c).target = c.target /\ OnSuccess(c).firstRun = FALSE
      /\ OnSuccess(c).curSuccess = (c.curSuccess + 1) % Modulus /\ OnSuccess(c).curFailures = 0
      /\ OnFailure(c).target = c.target /\ OnFailure(c).firstRun = FALSE
      /\ OnFailure(c).curFailures = (c.curFailures + 1) % Modulus /\ OnFailure(c).curSuccess = 0
  BY <1>1 DEF OnSuccess, OnFailure, Check
<1> QED  BY <1>2, <1>3, <1>4, <1>5, <1>6 DEF c

LEMMA WorkerShape ==
  ASSUME NEW n \in Nat, NEW s \in WorkerStates(n)
  PROVE  /\ s.stage \in {"free", "run", "changed", "notify"}
         /\ s.stage # "free" => s.check \in 1 .. n
         /\ s.stage = "notify" => s.event \in Ev(n) /\ s.event.check = s.check
  BY DEF WorkerStates, Free

LEMMA WorkerMade ==
  ASSUME NEW n \in Nat
  PROVE  /\ Free \in WorkerStates(n)
         /\ \A c \in 1 .. n : /\ [stage |-> "run", check |-> c] \in WorkerStates(n)
                              /\ [stage |-> "changed", check |-> c] \in WorkerStates(n)
                              /\ \A e \in Ev(n) : e.check = c =>
                                    [stage |-> "notify", check |-> c, event |-> e] \in WorkerStates(n)
  BY DEF WorkerStates

LEMMA ChecksKept ==
  ASSUME CountersInv, ReportInv, [Next]_vars
  PROVE  Kept(checks, checks') /\ (BoundsInv => BoundsInv')
<1>0. checks \in Seq(Check) /\ worker \in [Workers -> WorkerStates(Len(checks))] /\ Len(checks) \in Nat
  BY DEF CountersInv, ReportInv
<1>1. CASE UNCHANGED checks
  BY <1>0, <1>1 DEF Kept, BoundsInv
<1>2. ASSUME NEW t \in Targets, SchedulerAdd(t) PROVE Kept(checks, checks') /\ (BoundsInv => BoundsInv')
  <2> DEFINE c == NewHealthCheck(t)
  <2>1. c \in Check /\ c.curSuccess = 0 /\ c.curFailures = 0
    BY DEF NewHealthCheck, Check
  <2>2. checks' = Append(checks, c)  BY <1>2 DEF SchedulerAdd
  <2> HIDE DEF c
  <2>3. Len(checks') = Len(checks) + 1 /\ DOMAIN checks' = 1 .. Len(checks) + 1
    BY <1>0, <2>1, <2>2
  <2>4. \A i \in 1 .. Len(checks) : i \in DOMAIN checks' /\ checks'[i] = checks[i]
    BY <1>0, <2>2, <2>3
  <2>5. checks'[Len(checks) + 1] = c  BY <1>0, <2>1, <2>2
  <2>6. 0 < Modulus  BY Thresholds
  <2>7. \A i \in DOMAIN checks' : i \in 1 .. Len(checks) \/ checks'[i] = c  BY <1>0, <2>3, <2>5
  <2>8. DOMAIN checks = 1 .. Len(checks)  BY <1>0
  <2>9. Kept(checks, checks')  BY <1>0, <2>3, <2>4 DEF Kept
  <2>10. BoundsInv => BoundsInv'  BY <2>1, <2>4, <2>6, <2>7, <2>8 DEF BoundsInv
  <2> QED  BY <2>9, <2>10
<1>3. ASSUME NEW w \in Workers, DoHealthCheckIteration(w) PROVE Kept(checks, checks') /\ (BoundsInv => BoundsInv')
  <2>1. worker[w].stage = "run"  BY <1>3 DEF DoHealthCheckIteration
  <2>2. worker[w] \in WorkerStates(Len(checks))  BY <1>0
  <2>3. worker[w].check \in DOMAIN checks /\ DOMAIN checks = 1 .. Len(checks)  BY <1>0, <2>1, <2>2, WorkerShape
  <2>4. PICK new \in Check :
          /\ new.target = checks[worker[w].check].target /\ new.curSuccess < Modulus /\ new.curFailures < Modulus
          /\ checks' = [checks EXCEPT ![worker[w].check] = new]
    BY <1>3, <2>3, ProbeSteps
  <2>5. DOMAIN checks' = DOMAIN checks /\ Len(checks') = Len(checks)
        /\ \A i \in DOMAIN checks : checks'[i] = IF i = worker[w].check THEN new ELSE checks[i]
    BY <1>0, <2>3, <2>4
  <2> QED  BY <1>0, <2>3, <2>4, <2>5 DEF Kept, BoundsInv
<1> QED
  BY <1>1, <1>2, <1>3
  DEF Next, SchedulerRemove, TimePasses, SchedulerStep, TimerFires, RunIteration, BlockOnExecutor, WorkerStep,
      TakeTask, Info, NotifyHcStatusChanged, SendEvent, SendEventFails, SendUnsentEvents, SendUnsentEventsFails, vars

-----------------------------------------------------------------------------
LEMMA Joined ==
  ASSUME NEW X, NEW p \in Seq(X), NEW q \in Seq(X)
  PROVE  p \o q \in Seq(X) /\ Len(p \o q) = Len(p) + Len(q)
  OBVIOUS

(* The places of a sequence after an insertion and after a removal.        *)
Shifted(s, i, e, r) ==
    \A j \in 1 .. Len(s) + 1 : r[j] = IF j < i THEN s[j] ELSE IF j = i THEN e ELSE s[j - 1]

LEMMA Inserted ==
  ASSUME NEW X, NEW s \in Seq(X), NEW e \in X, NEW i \in 1 .. Len(s) + 1
  PROVE  /\ InsertAt(s, i, e) \in Seq(X) /\ Len(InsertAt(s, i, e)) = Len(s) + 1
         /\ Shifted(s, i, e, InsertAt(s, i, e))
<1> DEFINE a == SubSeq(s, 1, i - 1)
           b == SubSeq(s, i, Len(s))
           ab == a \o <<e>>
           r == ab \o b
<1>0. Len(s) \in Nat  OBVIOUS
<1>1. a \in Seq(X) /\ Len(a) = i - 1 /\ \A j \in 1 .. i - 1 : a[j] = s[j]  OBVIOUS
<1>2. b \in Seq(X) /\ Len(b) = Len(s) - i + 1 /\ \A j \in 1 .. Len(s) - i + 1 : b[j] = s[j + i - 1]
  OBVIOUS
<1> HIDE DEF a, b
<1>3. ab \in Seq(X) /\ Len(ab) = i /\ \A j \in 1 .. i : ab[j] = IF j = i THEN e ELSE a[j]
  BY <1>0, <1>1
<1> HIDE DEF ab
<1>4. r \in Seq(X) /\ Len(r) = Len(s) + 1
  <2>1. r \in Seq(X)  BY <1>2, <1>3
  <2>2. Len(r) = Len(ab) + Len(b)
    <3>1. ab \in Seq(X) /\ b \in Seq(X)  BY <1>2, <1>3
    <3> QED  BY <3>1, Joined
  <2>3. Len(r) = i + (Len(s) - i + 1)  BY <1>2, <1>3, <2>2
  <2> QED  BY <1>0, <2>1, <2>3
<1>5. \A j \in 1 .. Len(s) + 1 : r[j] = IF j <= i THEN ab[j] ELSE b[j - i]  BY <1>0, <1>2, <1>3
<1>6. r = InsertAt(s, i, e)  BY DEF InsertAt, ab, a, b
<1> HIDE DEF r
<1>7. Shifted(s, i, e, r)
  <2> SUFFICES ASSUME NEW j \in 1 .. Len(s) + 1
               PROVE  r[j] = IF j < i THEN s[j] ELSE IF j = i THEN e ELSE s[j - 1]
    BY DEF Shifted
  <2>1. CASE j <= i  BY <1>0, <1>1, <1>3, <1>5, <2>1
  <2>2. CASE j > i
    <3>1. j - i \in 1 .. Len(s) - i + 1 /\ (j - i) + i - 1 = j - 1  BY <1>0, <2>2
    <3>2. r[j] = b[j - i]  BY <1>0, <1>5, <2>2
    <3> QED  BY <1>0, <1>2, <2>2, <3>1, <3>2
  <2> QED  BY <1>0, <2>1, <2>2
<1> QED  BY <1>4, <1>6, <1>7

LEMMA Removed ==
  ASSUME NEW X, NEW s \in Seq(X), NEW i \in 1 .. Len(s)
  PROVE  /\ RemoveAt(s, i) \in Seq(X) /\ Len(RemoveAt(s, i)) = Len(s) - 1
         /\ \A j \in 1 .. Len(s) - 1 : RemoveAt(s, i)[j] = IF j < i THEN s[j] ELSE s[j + 1]
<1> DEFINE a == SubSeq(s, 1, i - 1)
           b == SubSeq(s, i + 1, Len(s))
           r == a \o b
<1>0. Len(s) \in Nat  OBVIOUS
<1>1. a \in Seq(X) /\ Len(a) = i - 1 /\ \A j \in 1 .. i - 1 : a[j] = s[j]  OBVIOUS
<1>2. b \in Seq(X) /\ Len(b) = Len(s) - i /\ \A j \in 1 .. Len(s) - i : b[j] = s[j + i]
  OBVIOUS
<1> HIDE DEF a, b
<1>4. r \in Seq(X) /\ Len(r) = Len(s) - 1
  <2>1. r \in Seq(X)  BY <1>1, <1>2
  <2>2. Len(r) = Len(a) + Len(b)
    <3>1. a \in Seq(X) /\ b \in Seq(X)  BY <1>1, <1>2
    <3> QED  BY <3>1, Joined
  <2>3. Len(r) = (i - 1) + (Len(s) - i)  BY <1>1, <1>2, <2>2
  <2> QED  BY <1>0, <2>1, <2>3
<1>5. \A j \in 1 .. Len(s) - 1 : r[j] = IF j <= i - 1 THEN a[j] ELSE b[j - (i - 1)]  BY <1>0, <1>1, <1>2
<1>6. r = RemoveAt(s, i)  BY DEF RemoveAt, a, b
<1> HIDE DEF r
<1>7. ASSUME NEW j \in 1 .. Len(s) - 1 PROVE r[j] = IF j < i THEN s[j] ELSE s[j + 1]
  <2>1. CASE j < i  BY <1>0, <1>1, <1>5, <2>1
  <2>2. CASE j >= i
    <3>1. j - (i - 1) \in 1 .. Len(s) - i /\ (j - (i - 1)) + i = j + 1  BY <1>0, <2>2
    <3>2. r[j] = b[j - (i - 1)]  BY <1>0, <1>5, <2>2
    <3> QED  BY <1>0, <1>2, <2>2, <3>1, <3>2
  <2> QED  BY <1>0, <2>1, <2>2
<1> QED  BY <1>4, <1>6, <1>7

(* The heap keeps one check of a target.                                   *)
LEMMA InsertedApart ==
  ASSUME NEW cs, NEW X, NEW h \in Seq(X), Apart(cs, h), NEW c \in X, NEW i \in 1 .. Len(h) + 1,
         \A j \in DOMAIN h : cs[h[j]].target # cs[c].target
  PROVE  Apart(cs, InsertAt(h, i, c)) /\ ToSet(InsertAt(h, i, c)) = ToSet(h) \cup {c}
<1> DEFINE r == InsertAt(h, i, c)
<1>0. Len(h) \in Nat /\ DOMAIN h = 1 .. Len(h)  OBVIOUS
<1>1. /\ r \in Seq(X) /\ Len(r) = Len(h) + 1
      /\ \A j \in 1 .. Len(h) + 1 : r[j] = IF j < i THEN h[j] ELSE IF j = i THEN c ELSE h[j - 1]
  <2>1. r \in Seq(X) /\ Len(r) = Len(h) + 1 /\ Shifted(h, i, c, r)  BY Inserted
  <2> HIDE DEF r
  <2> QED  BY <2>1 DEF Shifted
<1> HIDE DEF r
<1>2. DOMAIN r = 1 .. Len(h) + 1  BY <1>1
<1> DEFINE p(j) == IF j < i THEN j ELSE j - 1
<1>3. \A j \in DOMAIN r : j # i => p(j) \in DOMAIN h /\ r[j] = h[p(j)]  BY <1>0, <1>1, <1>2
<1>4. \A j, k \in DOMAIN r : j # i /\ k # i /\ j # k => p(j) # p(k)  BY <1>0, <1>2
<1>5. r[i] = c /\ i \in DOMAIN r  BY <1>0, <1>1, <1>2
<1>6. \A k \in DOMAIN h : \E j \in DOMAIN r : r[j] = h[k]
  <2> SUFFICES ASSUME NEW k \in DOMAIN h PROVE \E j \in DOMAIN r : r[j] = h[k]
    OBVIOUS
  <2>1. CASE k < i  BY <1>0, <1>1, <1>2, <2>1
  <2>2. CASE k >= i
    <3>1. k + 1 \in DOMAIN r /\ ~(k + 1 < i) /\ k + 1 # i /\ (k + 1) - 1 = k  BY <1>0, <1>2, <2>2
    <3>2. r[k + 1] = h[(k + 1) - 1]  BY <1>1, <1>2, <3>1
    <3> QED  BY <3>1, <3>2
  <2> QED  BY <1>0, <2>1, <2>2
<1> HIDE DEF p
<1>7. Apart(cs, r)
  <2> SUFFICES ASSUME NEW j \in DOMAIN r, NEW k \in DOMAIN r, j # k PROVE cs[r[j]].target # cs[r[k]].target
    BY DEF Apart
  <2>1. CASE j # i /\ k # i
    BY <1>3, <1>4, <2>1 DEF Apart
  <2>2. CASE j = i  BY <1>3, <1>5, <2>2
  <2>3. CASE k = i  BY <1>3, <1>5, <2>3
  <2> QED  BY <2>1, <2>2, <2>3
<1>8. ToSet(r) = ToSet(h) \cup {c}
  <2>1. ToSet(r) \subseteq ToSet(h) \cup {c}  BY <1>3, <1>5 DEF ToSet
  <2>2. ToSet(h) \cup {c} \subseteq ToSet(r)  BY <1>5, <1>6 DEF ToSet
  <2> QED  BY <2>1, <2>2
<1> QED  BY <1>7, <1>8 DEF r

LEMMA RemovedApart ==
  ASSUME NEW cs, NEW X, NEW h \in Seq(X), Apart(cs, h), NEW i \in DOMAIN h
  PROVE  Apart(cs, RemoveAt(h, i)) /\ ToSet(RemoveAt(h, i)) \subseteq ToSet(h)
<1> DEFINE r == RemoveAt(h, i)
<1>0. Len(h) \in Nat /\ DOMAIN h = 1 .. Len(h)  OBVIOUS
<1>1. /\ r \in Seq(X) /\ Len(r) = Len(h) - 1
      /\ \A j \in 1 .. Len(h) - 1 : r[j] = IF j < i THEN h[j] ELSE h[j + 1]
  BY <1>0, Removed
<1> HIDE DEF r
<1>2. DOMAIN r = 1 .. Len(h) - 1  BY <1>1
<1> DEFINE p(j) == IF j < i THEN j ELSE j + 1
<1>3. \A j \in DOMAIN r : p(j) \in DOMAIN h /\ r[j] = h[p(j)]  BY <1>0, <1>1, <1>2
<1>4. \A j, k \in DOMAIN r : j # k => p(j) # p(k)  BY <1>0, <1>2
<1> HIDE DEF p
<1> QED  BY <1>3, <1>4 DEF Apart, ToSet, r

LEMMA Widened ==
  ASSUME NEW X, NEW Y, X \subseteq Y, NEW s \in Seq(X)
  PROVE  s \in Seq(Y)
<1>1. s \in [1 .. Len(s) -> X] /\ Len(s) \in Nat  OBVIOUS
<1>2. s \in [1 .. Len(s) -> Y]  BY <1>1
<1> QED  BY <1>1, <1>2

LEMMA Elements ==
  ASSUME NEW X, NEW s \in Seq(X)
  PROVE  /\ \A i \in DOMAIN s : s[i] \in X
         /\ ToSet(s) \subseteq X
  BY DEF ToSet

LEMMA HeapInit == Init => HeapInv
  BY CheckPipelineAssumption DEF Init, HeapInv, Apart

LEMMA NumbersKept ==
  ASSUME NEW old \in Seq(Check), NEW new \in Seq(Check), Kept(old, new)
  PROVE  /\ Len(old) \in Nat /\ Len(new) \in Nat /\ 1 .. Len(old) \subseteq 1 .. Len(new)
         /\ \A c \in 1 .. Len(old) : new[c].target = old[c].target
<1>1. Len(old) \in Nat /\ Len(new) \in Nat  OBVIOUS
<1>2. Len(old) <= Len(new)  BY DEF Kept
<1>3. 1 .. Len(old) \subseteq 1 .. Len(new)  BY <1>1, <1>2
<1> QED  BY <1>1, <1>3 DEF Kept

LEMMA ApartKept ==
  ASSUME NEW old \in Seq(Check), NEW new \in Seq(Check), Kept(old, new), NEW h \in Seq(1 .. Len(old)),
         Apart(old, h)
  PROVE  Apart(new, h) /\ h \in Seq(1 .. Len(new))
<1>1. \A i \in DOMAIN h : h[i] \in 1 .. Len(old)  BY Elements
<1>2. \A i \in DOMAIN h : new[h[i]].target = old[h[i]].target  BY <1>1, NumbersKept
<1>3. Apart(new, h)  BY <1>2 DEF Apart
<1>4. 1 .. Len(old) \subseteq 1 .. Len(new)  BY NumbersKept
<1>5. h \in Seq(1 .. Len(new))  BY <1>4, Widened
<1> QED  BY <1>3, <1>5

LEMMA HeapKept ==
  ASSUME CountersInv, CountersInv', HeapInv, Kept(checks, checks'), Len(checks') <= MaxAdds,
         UNCHANGED <<heap, input, due, armed, iteration>>
  PROVE  HeapInv'
<1>0. checks \in Seq(Check) /\ checks' \in Seq(Check)  BY DEF CountersInv
<1>1. heap \in Seq(1 .. Len(checks)) /\ input \in Seq(1 .. Len(checks)) /\ Apart(checks, heap)  BY DEF HeapInv
<1>2. Apart(checks', heap) /\ heap \in Seq(1 .. Len(checks'))  BY <1>0, <1>1, ApartKept
<1>3. input \in Seq(1 .. Len(checks'))  BY <1>0, <1>1, NumbersKept, Widened
<1> QED  BY <1>2, <1>3 DEF HeapInv

LEMMA HeapAdd ==
  ASSUME CountersInv, CountersInv', HeapInv, NEW t \in Targets, SchedulerAdd(t), Kept(checks, checks')
  PROVE  /\ HeapInv'
         /\ ToSet(heap') = ToSet(heap) \cup {Len(checks) + 1}
<1> DEFINE n == Len(checks)
           X == 1 .. n + 1
<1>1. checks' = Append(checks, NewHealthCheck(t)) /\ n < MaxAdds /\ ~Scheduled(t)
      /\ UNCHANGED <<due, iteration, input>> /\ armed' = TRUE
  BY DEF SchedulerAdd
<1>2. checks \in Seq(Check) /\ checks' \in Seq(Check) /\ n \in Nat  BY DEF CountersInv
<1>3. Len(checks') = n + 1 /\ checks'[n + 1] = NewHealthCheck(t)
  BY <1>1, <1>2
<1>4. heap \in Seq(1 .. n) /\ input \in Seq(1 .. n) /\ due \in Nat /\ due <= Len(heap) /\ Len(heap) \in Nat
      /\ Apart(checks, heap)
  BY DEF HeapInv
<1>5. 1 .. n \subseteq X /\ n + 1 \in X  BY <1>2
<1>6. heap \in Seq(X) /\ input \in Seq(X) /\ Apart(checks', heap)
  <2>1. Apart(checks', heap) /\ heap \in Seq(1 .. Len(checks'))  BY <1>2, <1>4, ApartKept
  <2> QED  BY <1>3, <1>4, <1>5, <2>1, Widened
<1>7. PICK i \in due + 1 .. Len(heap) + 1 : heap' = InsertAt(heap, i, n + 1)
  BY DEF SchedulerAdd, InsertNotDue
<1>8. i \in 1 .. Len(heap) + 1  BY <1>4
<1>9. heap' \in Seq(X) /\ Len(heap') = Len(heap) + 1
  <2> HIDE DEF X
  <2> QED  BY <1>5, <1>6, <1>7, <1>8, Inserted
<1>10. \A j \in DOMAIN heap : checks'[heap[j]].target # checks'[n + 1].target
  <2>1. checks'[n + 1].target = t  BY <1>3 DEF NewHealthCheck
  <2>2. \A j \in DOMAIN heap : checks[heap[j]].target # t  BY <1>1 DEF Scheduled
  <2>3. \A j \in DOMAIN heap : heap[j] \in 1 .. n  BY <1>4, Elements
  <2>4. \A j \in DOMAIN heap : checks'[heap[j]].target = checks[heap[j]].target  BY <1>2, <2>3, NumbersKept
  <2> QED  BY <2>1, <2>2, <2>4
<1>11. Apart(checks', heap') /\ ToSet(heap') = ToSet(heap) \cup {n + 1}
  <2> HIDE DEF X
  <2> QED  BY <1>5, <1>6, <1>7, <1>8, <1>10, InsertedApart
<1>12. due <= Len(heap') /\ Len(checks') <= MaxAdds
  BY <1>1, <1>2, <1>3, <1>4, <1>9, CheckPipelineAssumption
<1> QED  BY <1>1, <1>3, <1>4, <1>6, <1>9, <1>11, <1>12 DEF HeapInv

LEMMA HeapRemove ==
  ASSUME HeapInv, NEW t \in Targets, SchedulerRemove(t)
  PROVE  HeapInv' /\ ToSet(heap') \subseteq ToSet(heap)
<1> DEFINE X == 1 .. Len(checks)
<1>1. PICK i \in DOMAIN heap : heap' = RemoveAt(heap, i) /\ due' = IF i <= due THEN due - 1 ELSE due
  BY DEF SchedulerRemove, RemoveFromHeap
<1>2. UNCHANGED <<checks, iteration, input>> /\ armed' = TRUE  BY DEF SchedulerRemove
<1>3. heap \in Seq(X) /\ Apart(checks, heap) /\ due \in Nat /\ due <= Len(heap) /\ Len(heap) \in Nat
  BY DEF HeapInv
<1> HIDE DEF X
<1>4. i \in 1 .. Len(heap)  BY <1>3
<1>5. heap' \in Seq(X) /\ Len(heap') = Len(heap) - 1  BY <1>1, <1>3, <1>4, Removed
<1>6. Apart(checks, heap') /\ ToSet(heap') \subseteq ToSet(heap)  BY <1>1, <1>3, RemovedApart
<1>7. due' \in Nat /\ due' <= Len(heap')  BY <1>1, <1>3, <1>4, <1>5
<1> QED  BY <1>2, <1>5, <1>6, <1>7 DEF HeapInv, X

LEMMA HeapRun ==
  ASSUME HeapInv, RunIteration
  PROVE  /\ HeapInv'
         /\ \/ heap' = heap /\ input' = input
            \/ heap # <<>> /\ ToSet(heap') = ToSet(heap) /\ input' = Append(input, Head(heap))
<1> DEFINE X == 1 .. Len(checks)
<1>1. UNCHANGED checks /\ armed' = TRUE /\ iteration' = "none"  BY DEF RunIteration
<1>2. heap \in Seq(X) /\ Apart(checks, heap) /\ due \in Nat /\ due <= Len(heap) /\ Len(heap) \in Nat
      /\ input \in Seq(X)
  BY DEF HeapInv
<1>3. CASE due > 0
  <2> DEFINE h == Head(heap)
             s == Tail(heap)
  <2>1. /\ Len(input) < ExecutorBuffer /\ input' = Append(input, h) /\ due' = due - 1
        /\ heap' \in InsertNotDue(s, due - 1, h)
    BY <1>3 DEF RunIteration, UpdateTop
  <2>2. heap # <<>>  BY <1>2, <1>3
  <2>3. h \in X /\ h = heap[1] /\ s \in Seq(X) /\ Len(s) = Len(heap) - 1 /\ DOMAIN s = 1 .. Len(heap) - 1
        /\ DOMAIN heap = 1 .. Len(heap) /\ Len(s) \in Nat
    <3> HIDE DEF X
    <3> QED  BY <1>2, <2>2
  <2>4. \A j \in 1 .. Len(heap) - 1 : s[j] = heap[j + 1]
    BY <1>2, <2>2
  <2> HIDE DEF h, s, X
  <2>5. Apart(checks, s) /\ \A j \in DOMAIN s : checks[s[j]].target # checks[h].target
    <3>1. \A j \in DOMAIN s : j + 1 \in DOMAIN heap /\ j + 1 # 1 /\ s[j] = heap[j + 1]  BY <1>2, <2>3, <2>4
    <3>2. 1 \in DOMAIN heap  BY <1>2, <1>3, <2>3
    <3>3. \A j, k \in DOMAIN s : j # k => j + 1 # k + 1  BY <2>3
    <3>4. \A i, j \in DOMAIN heap : i # j => checks[heap[i]].target # checks[heap[j]].target
      BY <1>2 DEF Apart
    <3>5. \A j \in DOMAIN s : checks[s[j]].target # checks[h].target  BY <2>3, <3>1, <3>2, <3>4
    <3>6. \A j, k \in DOMAIN s : j # k => checks[s[j]].target # checks[s[k]].target  BY <3>1, <3>3, <3>4
    <3> QED  BY <3>5, <3>6 DEF Apart
  <2>6. PICK i \in (due - 1) + 1 .. Len(s) + 1 : heap' = InsertAt(s, i, h)
    BY <2>1 DEF InsertNotDue
  <2>7. i \in 1 .. Len(s) + 1  BY <1>2, <1>3, <2>3
  <2>8. heap' \in Seq(X) /\ Len(heap') = Len(s) + 1  BY <2>3, <2>6, <2>7, Inserted
  <2>9. Apart(checks, heap') /\ ToSet(heap') = ToSet(s) \cup {h}
    BY <2>3, <2>5, <2>6, <2>7, InsertedApart
  <2>10. ToSet(s) \cup {h} = ToSet(heap)
    <3>1. \A j \in DOMAIN s : j + 1 \in DOMAIN heap /\ s[j] = heap[j + 1]  BY <1>2, <2>3, <2>4
    <3>2. 1 \in DOMAIN heap  BY <1>2, <1>3, <2>3
    <3>3. \A k \in DOMAIN heap : k = 1 \/ (k - 1 \in DOMAIN s /\ heap[k] = s[k - 1])
      <4> SUFFICES ASSUME NEW k \in DOMAIN heap, k # 1 PROVE k - 1 \in DOMAIN s /\ heap[k] = s[k - 1]
        OBVIOUS
      <4>1. k - 1 \in 1 .. Len(heap) - 1 /\ (k - 1) + 1 = k  BY <1>2, <2>3
      <4> QED  BY <2>3, <2>4, <4>1
    <3>4. ToSet(s) \cup {h} \subseteq ToSet(heap)  BY <2>3, <3>1, <3>2 DEF ToSet
    <3>5. ToSet(heap) \subseteq ToSet(s) \cup {h}  BY <2>3, <3>3 DEF ToSet
    <3> QED  BY <3>4, <3>5
  <2>11. input' \in Seq(X) /\ Len(input') = Len(input) + 1 /\ Len(input) \in Nat  BY <1>2, <2>1, <2>3
  <2>12. Len(input') <= ExecutorBuffer  BY <2>1, <2>11, CheckPipelineAssumption
  <2>13. due' \in Nat /\ due' <= Len(heap')  BY <1>2, <1>3, <2>1, <2>3, <2>8
  <2>14. HeapInv'
    BY <1>1, <2>8, <2>9, <2>11, <2>12, <2>13 DEF HeapInv, X
  <2> QED  BY <2>1, <2>2, <2>9, <2>10, <2>14 DEF h
<1>4. CASE ~(due > 0)
  <2>1. heap' = heap /\ due' = due /\ input' = input  BY <1>4 DEF RunIteration
  <2>2. HeapInv'  BY <1>1, <2>1 DEF HeapInv
  <2> QED  BY <2>1, <2>2
<1> QED  BY <1>3, <1>4

LEMMA HeapNext ==
  ASSUME CountersInv, CountersInv', HeapInv, ReportInv, [Next]_vars
  PROVE  HeapInv'
<1>0. Kept(checks, checks')  BY ChecksKept
<1>1. ASSUME NEW t \in Targets, SchedulerAdd(t) \/ SchedulerRemove(t) PROVE HeapInv'
  BY <1>0, <1>1, HeapAdd, HeapRemove
<1>2. CASE RunIteration  BY <1>2, HeapRun
<1>3. CASE TimePasses \/ TimerFires \/ BlockOnExecutor
  <2>1. UNCHANGED <<checks, heap, input>>  BY <1>3 DEF TimePasses, TimerFires, BlockOnExecutor
  <2>2. due' \in Nat /\ due' <= Len(heap)
    BY <1>3 DEF TimePasses, TimerFires, BlockOnExecutor, HeapInv
  <2>3. armed' \in BOOLEAN /\ iteration' \in {"none", "fired", "blocked"}
    BY <1>3 DEF TimePasses, TimerFires, BlockOnExecutor, HeapInv
  <2> QED  BY <2>1, <2>2, <2>3 DEF HeapInv
<1>4. ASSUME NEW w \in Workers, TakeTask(w) PROVE HeapInv'
  <2>1. UNCHANGED <<checks, heap, due, armed, iteration>> /\ input' = Tail(input) /\ input # <<>>
    BY <1>4 DEF TakeTask, scheduler
  <2>2. input \in Seq(1 .. Len(checks)) /\ Len(input) <= ExecutorBuffer  BY DEF HeapInv
  <2>3. Tail(input) \in Seq(1 .. Len(checks)) /\ Len(Tail(input)) = Len(input) - 1 /\ Len(input) \in Nat
    BY <2>1, <2>2
  <2>4. Len(input') <= ExecutorBuffer  BY <2>1, <2>2, <2>3, CheckPipelineAssumption
  <2> QED  BY <2>1, <2>3, <2>4 DEF HeapInv
<1>5. ASSUME NEW w \in Workers, DoHealthCheckIteration(w) PROVE HeapInv'
  <2>1. UNCHANGED <<heap, due, armed, iteration, input>>  BY <1>5 DEF DoHealthCheckIteration, scheduler
  <2>2. checks \in Seq(Check)  BY DEF CountersInv
  <2>3. Len(checks') = Len(checks)
    <3>1. \E new : checks' = [checks EXCEPT ![worker[w].check] = new]  BY <1>5 DEF DoHealthCheckIteration
    <3> QED  BY <2>2, <3>1
  <2>4. Len(checks') <= MaxAdds  BY <2>3 DEF HeapInv
  <2> QED  BY <1>0, <2>1, <2>4, HeapKept
<1>6. CASE UNCHANGED <<checks, heap, due, armed, iteration, input>>  BY <1>6 DEF HeapInv
<1>7. ASSUME NEW w \in Workers, Info(w) \/ NotifyHcStatusChanged(w) PROVE HeapInv'
  BY <1>6, <1>7 DEF Info, NotifyHcStatusChanged, scheduler
<1>8. CASE SendEvent \/ SendEventFails \/ SendUnsentEvents \/ SendUnsentEventsFails \/ UNCHANGED vars
  BY <1>6, <1>8 DEF SendEvent, SendEventFails, SendUnsentEvents, SendUnsentEventsFails, vars, scheduler
<1> QED  BY <1>1, <1>2, <1>3, <1>4, <1>5, <1>7, <1>8 DEF Next, SchedulerStep, WorkerStep

-----------------------------------------------------------------------------
(* The greatest of a bounded set of natural numbers.                       *)
LEMMA NatMax ==
  ASSUME NEW n \in Nat, NEW T \in SUBSET (1 .. n), T # {}
  PROVE  Max(T) \in T
<1> DEFINE D == {n - x : x \in T}
<1>1. D \in SUBSET Nat /\ D # {}
  <2>1. \A x \in T : n - x \in Nat  OBVIOUS
  <2>2. D \in SUBSET Nat  BY <2>1
  <2>3. PICK x \in T : TRUE  OBVIOUS
  <2>4. n - x \in D  OBVIOUS
  <2> QED  BY <2>2, <2>4
<1>2. IsWellFoundedOn(OpToRel(<, Nat), Nat)  BY NatLessThanWellFounded
<1>3. PICK d \in D : \A y \in D : ~ (<<y, d>> \in OpToRel(<, Nat))
  <2> HIDE DEF D
  <2> QED  BY <1>1, <1>2, WFMin
<1>4. \A y \in D : ~(y < d)  BY <1>1, <1>3 DEF OpToRel
<1>5. PICK x \in T : d = n - x  BY <1>3
<1>6. \A y \in T : x >= y
  <2> SUFFICES ASSUME NEW y \in T PROVE x >= y
    OBVIOUS
  <2>1. n - y \in D  OBVIOUS
  <2>2. ~(n - y < n - x)  BY <1>4, <1>5, <2>1
  <2>3. x \in Int /\ y \in Int  OBVIOUS
  <2> QED  BY <2>2, <2>3
<1> QED  BY <1>6 DEF Max

(* A row that is written is one of the events of its target.               *)
LEMMA Updated ==
  ASSUME NEW X, NEW batch \in Seq(X), NEW t \in Targets
  PROVE  \/ /\ UpdateTargetsStatuses(batch)[t] = db[t]
            /\ \A i \in DOMAIN batch : TargetOf(batch[i].check) # t
         \/ \E i \in DOMAIN batch : /\ UpdateTargetsStatuses(batch)[t] = batch[i]
                                    /\ TargetOf(batch[i].check) = t
<1> DEFINE own == {i \in DOMAIN batch : checks[batch[i].check].target = t}
<1>1. UpdateTargetsStatuses(batch)[t] = IF own = {} THEN db[t] ELSE batch[Max(own)]
  BY DEF UpdateTargetsStatuses
<1>2. DOMAIN batch = 1 .. Len(batch) /\ Len(batch) \in Nat  OBVIOUS
<1>3. CASE own = {}  BY <1>1, <1>3 DEF TargetOf
<1>4. CASE own # {}
  <2>1. own \in SUBSET (1 .. Len(batch))  BY <1>2
  <2> HIDE DEF own
  <2>2. Max(own) \in own  BY <1>2, <1>4, <2>1, NatMax
  <2> QED  BY <1>1, <1>4, <2>2 DEF own, TargetOf
<1> QED  BY <1>3, <1>4

LEMMA ReportInit == Init => ReportInv
<1> SUFFICES ASSUME Init PROVE ReportInv
  OBVIOUS
<1>1. \A n \in Nat : Free \in WorkerStates(n)  BY WorkerMade
<1>2. checks = <<>> /\ worker = [w \in Workers |-> Free] /\ events = <<>> /\ unsent = <<>>
      /\ db = [t \in Targets |-> NoStatus]
  BY DEF Init
<1>3. Len(checks) = 0 /\ Len(events) = 0  BY <1>2
<1>4. worker \in [Workers -> WorkerStates(Len(checks))]  BY <1>1, <1>2, <1>3
<1>5. NotifierBuffer \in Nat  BY CheckPipelineAssumption
<1>6. \A t \in Targets : db[t] = NoStatus /\ ~(db[t].check > 0)  BY <1>2 DEF NoStatus
<1> QED  BY <1>2, <1>3, <1>4, <1>5, <1>6 DEF ReportInv

LEMMA StatesKept ==
  ASSUME NEW m \in Nat, NEW n \in Nat, 1 .. m \subseteq 1 .. n
  PROVE  Ev(m) \subseteq Ev(n) /\ WorkerStates(m) \subseteq WorkerStates(n)
<1>1. Ev(m) \subseteq Ev(n)  BY DEF Ev
<1> QED  BY <1>1 DEF WorkerStates

LEMMA ReportKept ==
  ASSUME CountersInv, CountersInv', ReportInv, Kept(checks, checks'), UNCHANGED <<events, unsent, db>>,
         worker' \in [Workers -> WorkerStates(Len(checks))]
  PROVE  ReportInv'
<1> DEFINE m == Len(checks)
           n == Len(checks')
<1>0. checks \in Seq(Check) /\ checks' \in Seq(Check)  BY DEF CountersInv
<1>1. m \in Nat /\ n \in Nat /\ 1 .. m \subseteq 1 .. n /\ \A c \in 1 .. m : checks'[c].target = checks[c].target
  BY <1>0, NumbersKept
<1>2. events \in Seq(Ev(m)) /\ unsent \in Seq(Ev(m)) /\ db \in [Targets -> Ev(m) \cup {NoStatus}]
  BY DEF ReportInv
<1> HIDE DEF m, n
<1>3. Ev(m) \subseteq Ev(n) /\ WorkerStates(m) \subseteq WorkerStates(n)  BY <1>1, StatesKept
<1>4. events \in Seq(Ev(n)) /\ unsent \in Seq(Ev(n))  BY <1>2, <1>3, Widened
<1>5. db \in [Targets -> Ev(n) \cup {NoStatus}]  BY <1>2, <1>3
<1>6. worker' \in [Workers -> WorkerStates(n)]  BY <1>3 DEF m
<1>7. ASSUME NEW t \in Targets, db[t].check > 0 PROVE checks'[db[t].check].target = t
  <2>1. db[t].check \in 1 .. m  BY <1>2, <1>7 DEF Ev, NoStatus
  <2> QED  BY <1>1, <1>7, <2>1 DEF ReportInv, TargetOf
<1> QED  BY <1>4, <1>5, <1>6, <1>7 DEF ReportInv, TargetOf, n

LEMMA RowsWritten ==
  ASSUME ReportInv, NEW batch \in Seq(Ev(Len(checks))), db' = UpdateTargetsStatuses(batch), UNCHANGED checks
  PROVE  /\ db' \in [Targets -> Ev(Len(checks)) \cup {NoStatus}]
         /\ \A t \in Targets : db'[t].check > 0 => TargetOf(db'[t].check) = t
<1> DEFINE X == Ev(Len(checks))
<1>1. db' = [t \in Targets |-> db'[t]]  BY DEF UpdateTargetsStatuses
<1>2. ASSUME NEW t \in Targets
      PROVE  db'[t] \in X \cup {NoStatus} /\ (db'[t].check > 0 => TargetOf(db'[t].check) = t)
  <2>1. \A i \in DOMAIN batch : batch[i] \in X  BY Elements
  <2>2. \/ db'[t] = db[t]
        \/ \E i \in DOMAIN batch : db'[t] = batch[i] /\ TargetOf(batch[i].check) = t
    BY Updated
  <2>3. CASE db'[t] = db[t]  BY <2>3 DEF ReportInv
  <2>4. CASE \E i \in DOMAIN batch : db'[t] = batch[i] /\ TargetOf(batch[i].check) = t
    BY <2>1, <2>4
  <2> QED  BY <2>2, <2>3, <2>4
<1> HIDE DEF X
<1>3. db' \in [Targets -> X \cup {NoStatus}]  BY <1>1, <1>2
<1> QED  BY <1>2, <1>3 DEF X

LEMMA Outdated ==
  ASSUME NEW n \in Nat, NEW e \in Ev(n) \cup {NoStatus}, NEW c \in 1 .. n
  PROVE  /\ Outdate(e, c) \in Ev(n) \cup {NoStatus}
         /\ e \in Ev(n) => Outdate(e, c) \in Ev(n)
         /\ Outdate(e, c).check = e.check /\ Outdate(e, c).status = e.status
         /\ Outdate(e, c).fresh = (e.fresh /\ e.check # c)
<1>1. e.fresh \in BOOLEAN
  <2>1. CASE e \in Ev(n)  BY <2>1 DEF Ev
  <2>2. CASE e = NoStatus
    <3>1. e.fresh = FALSE  BY <2>2 DEF NoStatus
    <3> QED  BY <3>1
  <2> QED  BY <2>1, <2>2
<1>2. CASE e.check = c
  <2>1. e \in Ev(n)  BY <1>2 DEF NoStatus
  <2>2. Outdate(e, c) = [e EXCEPT !.fresh = FALSE]  BY <1>2 DEF Outdate
  <2>3. \A b \in BOOLEAN : /\ [e EXCEPT !.fresh = b] \in Ev(n) /\ [e EXCEPT !.fresh = b].check = e.check
                           /\ [e EXCEPT !.fresh = b].status = e.status /\ [e EXCEPT !.fresh = b].fresh = b
    BY <2>1 DEF Ev
  <2> QED  BY <1>2, <2>2, <2>3
<1>3. CASE e.check # c
  BY <1>1, <1>3 DEF Outdate
<1> QED  BY <1>2, <1>3

LEMMA AllOutdated ==
  ASSUME NEW n \in Nat, NEW q \in Seq(Ev(n)), NEW c \in 1 .. n
  PROVE  /\ OutdateAll(q, c) \in Seq(Ev(n)) /\ Len(OutdateAll(q, c)) = Len(q)
         /\ DOMAIN OutdateAll(q, c) = DOMAIN q
         /\ \A i \in DOMAIN q : OutdateAll(q, c)[i] = Outdate(q[i], c)
<1> DEFINE X == Ev(n)
<1>1. \A i \in DOMAIN q : Outdate(q[i], c) \in X  BY Elements, Outdated
<1>2. OutdateAll(q, c) = [i \in DOMAIN q |-> Outdate(q[i], c)]  BY DEF OutdateAll
<1> HIDE DEF X
<1>3. DOMAIN q = 1 .. Len(q) /\ Len(q) \in Nat  OBVIOUS
<1>4. OutdateAll(q, c) \in [1 .. Len(q) -> X]  BY <1>1, <1>2, <1>3
<1>5. OutdateAll(q, c) \in Seq(X) /\ Len(OutdateAll(q, c)) = Len(q)  BY <1>3, <1>4
<1> QED  BY <1>2, <1>5 DEF X

(* What Info leaves behind: the new report, and all others of its check    *)
(* outdated.                                                               *)
InfoEvent(w) == [check |-> worker[w].check, status |-> checks[worker[w].check].status, fresh |-> TRUE]

LEMMA InfoSteps ==
  ASSUME CountersInv, ReportInv, NEW w \in Workers, Info(w)
  PROVE  LET c == worker[w].check
             n == Len(checks) IN
         /\ c \in 1 .. n /\ n \in Nat /\ InfoEvent(w) \in Ev(n) /\ UNCHANGED <<checks, input, heap, faults, overlapped>>
         /\ worker' \in [Workers -> WorkerStates(n)]
         /\ worker'[w] = [stage |-> "notify", check |-> c, event |-> InfoEvent(w)]
         /\ \A x \in Workers \ {w} :
               /\ worker'[x].stage = worker[x].stage
               /\ worker[x].stage # "notify" => worker'[x] = worker[x]
               /\ worker[x].stage = "notify" => /\ worker'[x].check = worker[x].check
                                                /\ worker'[x].event = Outdate(worker[x].event, c)
         /\ events' = OutdateAll(events, c) /\ unsent' = OutdateAll(unsent, c)
         /\ db' = [t \in Targets |-> Outdate(db[t], c)]
<1> DEFINE c == worker[w].check
           n == Len(checks)
           event == InfoEvent(w)
<1>0. checks \in Seq(Check) /\ n \in Nat /\ worker \in [Workers -> WorkerStates(n)]
  BY DEF CountersInv, ReportInv
<1>1. /\ worker[w].stage = "changed"
      /\ worker' = [x \in Workers |->
                 IF x = w THEN [stage |-> "notify", check |-> c, event |-> event]
                 ELSE IF worker[x].stage = "notify" THEN [worker[x] EXCEPT !.event = Outdate(@, c)]
                 ELSE worker[x]]
      /\ events' = OutdateAll(events, c) /\ unsent' = OutdateAll(unsent, c)
      /\ db' = [t \in Targets |-> Outdate(db[t], c)]
      /\ UNCHANGED <<checks, input, heap, faults, overlapped>>
  BY DEF Info, InfoEvent, scheduler
<1> HIDE DEF n
<1>2. worker[w] \in WorkerStates(n)  BY <1>0
<1>3. c \in 1 .. n  BY <1>0, <1>1, <1>2, WorkerShape
<1>4. checks[c] \in Check  BY <1>0, <1>3 DEF n
<1>5. checks[c].status \in BOOLEAN  BY <1>4 DEF Check
<1>6. event \in Ev(n) /\ event.check = c
  <2>1. \A b, f \in BOOLEAN : [check |-> c, status |-> b, fresh |-> f] \in Ev(n)  BY <1>3 DEF Ev
  <2> QED  BY <1>5, <2>1 DEF InfoEvent
<1> HIDE DEF event, c
<1>7. [stage |-> "notify", check |-> c, event |-> event] \in WorkerStates(n)  BY <1>0, <1>3, <1>6, WorkerMade
<1>8. ASSUME NEW x \in Workers \ {w}, worker[x].stage = "notify"
      PROVE  /\ worker'[x] = [stage |-> "notify", check |-> worker[x].check, event |-> Outdate(worker[x].event, c)]
             /\ worker'[x] \in WorkerStates(n)
  <2>1. worker[x] \in WorkerStates(n)  BY <1>0
  <2>2. worker[x].check \in 1 .. n /\ worker[x].event \in Ev(n) /\ worker[x].event.check = worker[x].check
    BY <1>0, <1>8, <2>1, WorkerShape
  <2>3. worker[x] \in [stage : {"notify"}, check : 1 .. n, event : Ev(n)]
    BY <1>8, <2>1 DEF WorkerStates, Free
  <2>4. worker'[x] = [worker[x] EXCEPT !.event = Outdate(worker[x].event, c)]  BY <1>1, <1>8, <2>3
  <2>5. worker'[x] = [stage |-> "notify", check |-> worker[x].check, event |-> Outdate(worker[x].event, c)]
    BY <1>8, <2>3, <2>4
  <2>6. Outdate(worker[x].event, c) \in Ev(n) /\ Outdate(worker[x].event, c).check = worker[x].check
    BY <1>0, <1>3, <2>2, Outdated
  <2> QED  BY <1>0, <2>2, <2>5, <2>6, WorkerMade
<1>9. ASSUME NEW x \in Workers \ {w}, worker[x].stage # "notify" PROVE worker'[x] = worker[x]
  BY <1>1, <1>9
<1>10. worker'[w] = [stage |-> "notify", check |-> c, event |-> event]  BY <1>1
<1>11. \A x \in Workers : worker'[x] \in WorkerStates(n)  BY <1>0, <1>7, <1>8, <1>9, <1>10
<1>12. worker' = [x \in Workers |-> worker'[x]]  BY <1>1
<1>13. worker' \in [Workers -> WorkerStates(n)]  BY <1>11, <1>12
<1>14. \A x \in Workers \ {w} :
               /\ worker'[x].stage = worker[x].stage
               /\ worker[x].stage # "notify" => worker'[x] = worker[x]
               /\ worker[x].stage = "notify" => /\ worker'[x].check = worker[x].check
                                                /\ worker'[x].event = Outdate(worker[x].event, c)
  <2> SUFFICES ASSUME NEW x \in Workers \ {w}
               PROVE  /\ worker'[x].stage = worker[x].stage
                      /\ worker[x].stage # "notify" => worker'[x] = worker[x]
                      /\ worker[x].stage = "notify" => /\ worker'[x].check = worker[x].check
                                                       /\ worker'[x].event = Outdate(worker[x].event, c)
    OBVIOUS
  <2>1. CASE worker[x].stage = "notify"
    <3>1. worker'[x] = [stage |-> "notify", check |-> worker[x].check, event |-> Outdate(worker[x].event, c)]
      BY <1>8, <2>1
    <3> QED  BY <2>1, <3>1
  <2>2. CASE worker[x].stage # "notify"  BY <1>9, <2>2
  <2> QED  BY <2>1, <2>2
<1> QED  BY <1>0, <1>1, <1>3, <1>6, <1>10, <1>13, <1>14 DEF c, n, event

LEMMA ReportInfo ==
  ASSUME CountersInv, ReportInv, NEW w \in Workers, Info(w)
  PROVE  ReportInv'
<1> DEFINE c == worker[w].check
           n == Len(checks)
<1>1. /\ c \in 1 .. n /\ n \in Nat /\ checks' = checks /\ worker' \in [Workers -> WorkerStates(n)]
      /\ events' = OutdateAll(events, c) /\ unsent' = OutdateAll(unsent, c)
      /\ db' = [t \in Targets |-> Outdate(db[t], c)]
  BY InfoSteps
<1>2. /\ events \in Seq(Ev(n)) /\ unsent \in Seq(Ev(n)) /\ db \in [Targets -> Ev(n) \cup {NoStatus}]
      /\ Len(events) <= NotifierBuffer
  BY DEF ReportInv
<1> HIDE DEF c, n
<1>3. events' \in Seq(Ev(n)) /\ unsent' \in Seq(Ev(n)) /\ Len(events') = Len(events)
  BY <1>1, <1>2, AllOutdated
<1>4. \A t \in Targets : db'[t] \in Ev(n) \cup {NoStatus} /\ db'[t].check = db[t].check
  <2> SUFFICES ASSUME NEW t \in Targets
               PROVE  db'[t] \in Ev(n) \cup {NoStatus} /\ db'[t].check = db[t].check
    OBVIOUS
  <2>1. db[t] \in Ev(n) \cup {NoStatus} /\ db'[t] = Outdate(db[t], c)  BY <1>1, <1>2
  <2> QED  BY <1>1, <2>1, Outdated
<1>5. db' \in [Targets -> Ev(n) \cup {NoStatus}]  BY <1>1, <1>4
<1> QED  BY <1>1, <1>2, <1>3, <1>4, <1>5 DEF ReportInv, TargetOf, n

LEMMA ReportNext ==
  ASSUME CountersInv, CountersInv', HeapInv, ReportInv, [Next]_vars
  PROVE  ReportInv'
<1> DEFINE n == Len(checks)
<1>0. /\ Kept(checks, checks') /\ checks \in Seq(Check) /\ n \in Nat /\ worker \in [Workers -> WorkerStates(n)]
      /\ events \in Seq(Ev(n)) /\ unsent \in Seq(Ev(n)) /\ Len(events) <= NotifierBuffer /\ Len(events) \in Nat
  BY ChecksKept DEF CountersInv, ReportInv
<1>1. ASSUME NEW t \in Targets, SchedulerAdd(t) \/ SchedulerRemove(t) PROVE ReportInv'
  <2>1. UNCHANGED <<worker, events, unsent, db>>  BY <1>1 DEF SchedulerAdd, SchedulerRemove, sender
  <2> QED  BY <1>0, <2>1, ReportKept
<1>2. CASE TimePasses \/ SchedulerStep \/ UNCHANGED vars
  <2>1. UNCHANGED <<worker, events, unsent, db>>
    BY <1>2 DEF TimePasses, SchedulerStep, TimerFires, RunIteration, BlockOnExecutor, sender, vars
  <2> QED  BY <1>0, <2>1, ReportKept
<1>3. ASSUME NEW w \in Workers, TakeTask(w) PROVE ReportInv'
  <2>1. worker' = [worker EXCEPT ![w] = [stage |-> "run", check |-> Head(input)]] /\ input # <<>>
        /\ UNCHANGED <<events, unsent, db>>
    BY <1>3 DEF TakeTask, sender
  <2>2. input \in Seq(1 .. n)  BY DEF HeapInv
  <2>3. Head(input) \in 1 .. n  BY <2>1, <2>2
  <2>4. [stage |-> "run", check |-> Head(input)] \in WorkerStates(n)  BY <1>0, <2>3, WorkerMade
  <2>5. worker' \in [Workers -> WorkerStates(n)]  BY <1>0, <2>1, <2>4
  <2> QED  BY <1>0, <2>1, <2>5, ReportKept
<1>4. ASSUME NEW w \in Workers, DoHealthCheckIteration(w) PROVE ReportInv'
  <2>1. worker[w].stage = "run" /\ UNCHANGED <<events, unsent, db>>  BY <1>4 DEF DoHealthCheckIteration, sender
  <2>2. worker[w] \in WorkerStates(n)  BY <1>0
  <2>3. worker[w].check \in 1 .. n  BY <1>0, <2>1, <2>2, WorkerShape
  <2>4. PICK s \in {[stage |-> "changed", check |-> worker[w].check], Free} : worker' = [worker EXCEPT ![w] = s]
    BY <1>4 DEF DoHealthCheckIteration
  <2>5. s \in WorkerStates(n)  BY <1>0, <2>3, WorkerMade
  <2>6. worker' \in [Workers -> WorkerStates(n)]  BY <1>0, <2>4, <2>5
  <2> QED  BY <1>0, <2>1, <2>6, ReportKept
<1>5. ASSUME NEW w \in Workers, Info(w) PROVE ReportInv'  BY <1>5, ReportInfo
<1>6. ASSUME NEW w \in Workers, NotifyHcStatusChanged(w) PROVE ReportInv'
  <2>1. /\ worker[w].stage = "notify" /\ Len(events) < NotifierBuffer /\ events' = Append(events, worker[w].event)
        /\ worker' = [worker EXCEPT ![w] = Free] /\ UNCHANGED <<checks, unsent, db>>
    BY <1>6 DEF NotifyHcStatusChanged, sender
  <2>2. worker[w] \in WorkerStates(n) /\ Free \in WorkerStates(n)  BY <1>0, WorkerMade
  <2>3. worker[w].event \in Ev(n)  BY <1>0, <2>1, <2>2, WorkerShape
  <2>4. events' \in Seq(Ev(n)) /\ Len(events') = Len(events) + 1  BY <1>0, <2>1, <2>3
  <2>5. Len(events') <= NotifierBuffer  BY <1>0, <2>1, <2>4, CheckPipelineAssumption
  <2>6. worker' \in [Workers -> WorkerStates(n)]  BY <1>0, <2>1, <2>2
  <2> QED  BY <2>1, <2>4, <2>5, <2>6 DEF ReportInv, TargetOf
<1>7. CASE SendEvent \/ SendEventFails
  <2>1. /\ events # <<>> /\ events' = Tail(events) /\ UNCHANGED <<checks, worker>>
        /\ unsent' \in {unsent, Append(unsent, Head(events))}
        /\ db' = db \/ db' = UpdateTargetsStatuses(<<Head(events)>>)
    BY <1>7 DEF SendEvent, SendEventFails
  <2>2. Head(events) \in Ev(n) /\ Tail(events) \in Seq(Ev(n)) /\ Len(Tail(events)) = Len(events) - 1
    BY <1>0, <2>1
  <2>3. <<Head(events)>> \in Seq(Ev(n)) /\ unsent' \in Seq(Ev(n))
    <3>1. <<Head(events)>> \in Seq(Ev(n))  BY <2>2
    <3>2. Append(unsent, Head(events)) \in Seq(Ev(n))  BY <1>0, <2>2
    <3> QED  BY <1>0, <2>1, <3>1, <3>2
  <2>4. /\ db' \in [Targets -> Ev(n) \cup {NoStatus}]
        /\ \A t \in Targets : db'[t].check > 0 => TargetOf(db'[t].check) = t
    <3>1. CASE db' = db  BY <3>1 DEF ReportInv
    <3>2. CASE db' = UpdateTargetsStatuses(<<Head(events)>>)  BY <2>1, <2>3, <3>2, RowsWritten
    <3> QED  BY <2>1, <3>1, <3>2
  <2>5. Len(events') <= NotifierBuffer  BY <1>0, <2>1, <2>2, CheckPipelineAssumption
  <2> QED  BY <1>0, <2>1, <2>2, <2>3, <2>4, <2>5 DEF ReportInv, TargetOf
<1>8. CASE SendUnsentEvents
  <2>1. db' = UpdateTargetsStatuses(unsent) /\ unsent' = <<>> /\ UNCHANGED <<checks, worker, events>>
    BY <1>8 DEF SendUnsentEvents, Cleared
  <2>2. /\ db' \in [Targets -> Ev(n) \cup {NoStatus}]
        /\ \A t \in Targets : db'[t].check > 0 => TargetOf(db'[t].check) = t
    BY <1>0, <2>1, RowsWritten
  <2>3. unsent' \in Seq(Ev(n))  BY <2>1
  <2> QED  BY <1>0, <2>1, <2>2, <2>3 DEF ReportInv, TargetOf
<1>9. CASE SendUnsentEventsFails
  <2>1. UNCHANGED <<checks, worker, events, db>>  BY <1>9 DEF SendUnsentEventsFails
  <2>2. PICK d \in 0 .. Len(unsent) - 1 : unsent' = SubSeq(unsent, d + 1, Len(unsent))
    BY <1>9 DEF SendUnsentEventsFails
  <2>3. Len(unsent) \in Nat /\ d + 1 \in 1 .. Len(unsent)  BY <1>0
  <2>4. unsent' \in Seq(Ev(n))  BY <1>0, <2>2, <2>3
  <2> QED  BY <1>0, <2>1, <2>4 DEF ReportInv, TargetOf
<1> QED  BY <1>1, <1>2, <1>3, <1>4, <1>5, <1>6, <1>7, <1>8, <1>9 DEF Next, WorkerStep

-----------------------------------------------------------------------------
(* The reports by the places they are at.                                  *)
Notes(wk) == {wk[w].event : w \in {x \in Workers : wk[x].stage = "notify"}}
Rows(d) == {d[t] : t \in Targets}

LEMMA ReportPlaces ==
  /\ Reports = ToSet(events) \cup ToSet(unsent) \cup Notes(worker) \cup Rows(db)
  /\ Reports' = ToSet(events') \cup ToSet(unsent') \cup Notes(worker') \cup Rows(db')
  BY DEF Reports, Pending, Notes, Rows

LEMMA ReportsTyped ==
  ASSUME CountersInv, ReportInv
  PROVE  Reports \subseteq Ev(Len(checks)) \cup {NoStatus}
<1> DEFINE n == Len(checks)
<1>0. n \in Nat /\ events \in Seq(Ev(n)) /\ unsent \in Seq(Ev(n)) /\ worker \in [Workers -> WorkerStates(n)]
      /\ db \in [Targets -> Ev(n) \cup {NoStatus}]
  BY DEF CountersInv, ReportInv
<1> HIDE DEF n
<1>1. ToSet(events) \subseteq Ev(n) /\ ToSet(unsent) \subseteq Ev(n)  BY <1>0, Elements
<1>2. \A w \in Workers : worker[w].stage = "notify" => worker[w].event \in Ev(n)
  <2> SUFFICES ASSUME NEW w \in Workers, worker[w].stage = "notify" PROVE worker[w].event \in Ev(n)
    OBVIOUS
  <2>1. worker[w] \in WorkerStates(n)  BY <1>0
  <2> QED  BY <1>0, <2>1, WorkerShape
<1>3. Notes(worker) \subseteq Ev(n)  BY <1>2 DEF Notes
<1>4. Rows(db) \subseteq Ev(n) \cup {NoStatus}  BY <1>0 DEF Rows
<1> QED  BY <1>1, <1>3, <1>4, ReportPlaces DEF n

(* A free goroutine, and one that probes, holds no report.                 *)
LEMMA NotesKept ==
  ASSUME NEW n, worker \in [Workers -> WorkerStates(n)], NEW w \in Workers, NEW s,
         worker' = [worker EXCEPT ![w] = s], worker[w].stage # "notify", s.stage # "notify"
  PROVE  Notes(worker') = Notes(worker)
<1>1. /\ worker'[w] = s
      /\ \A x \in Workers : x # w => worker'[x] = worker[x]
  OBVIOUS
<1>2. {x \in Workers : worker'[x].stage = "notify"} = {x \in Workers : worker[x].stage = "notify"}  BY <1>1
<1>3. \A x \in {y \in Workers : worker[y].stage = "notify"} : worker'[x].event = worker[x].event  BY <1>1
<1> QED  BY <1>2, <1>3 DEF Notes

(* Where a step moves reports and makes none.                              *)
SameUnread == \A x \in Workers :
    /\ worker'[x].stage = "changed" <=> worker[x].stage = "changed"
    /\ worker[x].stage = "changed" => worker'[x].check = worker[x].check

LEMMA CurrentMoved ==
  ASSUME NewestReportIsCurrent, Reports' \subseteq Reports, SameUnread,
         \A e \in Reports : checks'[e.check].status = checks[e.check].status
  PROVE  NewestReportIsCurrent'
<1> SUFFICES ASSUME NEW e \in Reports', e.fresh, ~Unread(e.check)'
             PROVE  e.status = checks'[e.check].status
  BY DEF NewestReportIsCurrent
<1>1. ~Unread(e.check)  BY DEF Unread, SameUnread
<1> QED  BY <1>1 DEF NewestReportIsCurrent

LEMMA Tailed ==
  ASSUME NEW X, NEW s \in Seq(X), s # <<>>
  PROVE  /\ ToSet(s) = {Head(s)} \cup ToSet(Tail(s))
         /\ Head(s) = s[1] /\ 1 \in DOMAIN s
         /\ \A j \in DOMAIN Tail(s) : j + 1 \in DOMAIN s /\ Tail(s)[j] = s[j + 1] /\ j \in Nat /\ j > 0
<1>1. Len(s) \in Nat /\ Len(s) >= 1 /\ DOMAIN s = 1 .. Len(s)  OBVIOUS
<1>2. DOMAIN Tail(s) = 1 .. Len(s) - 1  OBVIOUS
<1>3. \A j \in 1 .. Len(s) - 1 : Tail(s)[j] = s[j + 1]  OBVIOUS
<1>4. Head(s) = s[1] /\ 1 \in DOMAIN s  BY <1>1
<1>5. \A j \in DOMAIN Tail(s) : j + 1 \in DOMAIN s /\ Tail(s)[j] = s[j + 1] /\ j \in Nat /\ j > 0
  BY <1>1, <1>2, <1>3
<1>6. \A k \in DOMAIN s : k = 1 \/ (k - 1 \in DOMAIN Tail(s) /\ s[k] = Tail(s)[k - 1])
  <2> SUFFICES ASSUME NEW k \in DOMAIN s, k # 1 PROVE k - 1 \in DOMAIN Tail(s) /\ s[k] = Tail(s)[k - 1]
    OBVIOUS
  <2>1. k - 1 \in 1 .. Len(s) - 1 /\ (k - 1) + 1 = k  BY <1>1
  <2> QED  BY <1>2, <1>3, <2>1
<1>7. {Head(s)} \cup ToSet(Tail(s)) \subseteq ToSet(s)  BY <1>4, <1>5 DEF ToSet
<1>8. ToSet(s) \subseteq {Head(s)} \cup ToSet(Tail(s))  BY <1>4, <1>6 DEF ToSet
<1> QED  BY <1>4, <1>5, <1>7, <1>8

LEMMA Appended ==
  ASSUME NEW X, NEW s \in Seq(X), NEW e \in X
  PROVE  /\ ToSet(Append(s, e)) = ToSet(s) \cup {e}
         /\ DOMAIN Append(s, e) = DOMAIN s \cup {Len(s) + 1}
         /\ Append(s, e)[Len(s) + 1] = e
         /\ \A j \in DOMAIN s : Append(s, e)[j] = s[j] /\ j < Len(s) + 1
<1>1. Len(s) \in Nat /\ DOMAIN s = 1 .. Len(s)  OBVIOUS
<1>2. DOMAIN Append(s, e) = 1 .. Len(s) + 1  OBVIOUS
<1>3. Append(s, e)[Len(s) + 1] = e /\ \A j \in 1 .. Len(s) : Append(s, e)[j] = s[j]  OBVIOUS
<1>4. DOMAIN Append(s, e) = DOMAIN s \cup {Len(s) + 1}  BY <1>1, <1>2
<1>5. \A j \in DOMAIN s : Append(s, e)[j] = s[j] /\ j < Len(s) + 1  BY <1>1, <1>3
<1>6. ToSet(Append(s, e)) = ToSet(s) \cup {e}
  <2>1. ToSet(Append(s, e)) \subseteq ToSet(s) \cup {e}  BY <1>3, <1>4, <1>5 DEF ToSet
  <2>2. ToSet(s) \cup {e} \subseteq ToSet(Append(s, e))  BY <1>3, <1>4, <1>5 DEF ToSet
  <2> QED  BY <2>1, <2>2
<1> QED  BY <1>3, <1>4, <1>5, <1>6

LEMMA RowsMoved ==
  ASSUME NEW X, NEW batch \in Seq(X), db' = UpdateTargetsStatuses(batch)
  PROVE  Rows(db') \subseteq Rows(db) \cup ToSet(batch)
<1>1. \A t \in Targets : db'[t] = db[t] \/ \E i \in DOMAIN batch : db'[t] = batch[i]  BY Updated
<1> QED  BY <1>1 DEF Rows, ToSet

LEMMA CurrentProbe ==
  ASSUME CountersInv, ReportInv, NewestReportIsCurrent, NEW w \in Workers, DoHealthCheckIteration(w)
  PROVE  NewestReportIsCurrent' /\ Reports' = Reports
<1> DEFINE i == worker[w].check
           c == checks[i]
           n == Len(checks)
<1>0. checks \in Seq(Check) /\ n \in Nat /\ worker \in [Workers -> WorkerStates(n)]
  BY DEF CountersInv, ReportInv
<1>1. worker[w].stage = "run" /\ UNCHANGED <<events, unsent, db>>  BY DEF DoHealthCheckIteration, sender
<1>2. worker[w] \in WorkerStates(n)  BY <1>0
<1>3. i \in DOMAIN checks  BY <1>0, <1>1, <1>2, WorkerShape
<1>4. PICK new \in Check :
        /\ checks' = [checks EXCEPT ![i] = new]
        /\ worker' = [worker EXCEPT ![w] = IF Changed(c, new) THEN [stage |-> "changed", check |-> i] ELSE Free]
  BY <1>3, ProbeSteps
<1> DEFINE s == IF Changed(c, new) THEN [stage |-> "changed", check |-> i] ELSE Free
<1>5. s.stage # "notify" /\ (Changed(c, new) => s.stage = "changed" /\ s.check = i)
      /\ (~Changed(c, new) => s.stage = "free")
  BY DEF Free
<1>6. worker' = [worker EXCEPT ![w] = s]  BY <1>4
<1> HIDE DEF s
<1>7. Notes(worker') = Notes(worker)  BY <1>0, <1>1, <1>5, <1>6, NotesKept
<1>8. Reports' = Reports  BY <1>1, <1>7, ReportPlaces
<1>9. \A x \in Workers : worker'[x] = IF x = w THEN s ELSE worker[x]  BY <1>0, <1>6
<1>10. /\ \A j \in DOMAIN checks : j # i => checks'[j] = checks[j]
       /\ checks'[i] = new
  BY <1>0, <1>3, <1>4
<1>11. ASSUME NEW e \in Reports, e.fresh, ~Unread(e.check)' PROVE e.status = checks'[e.check].status
  <2>1. ~Unread(e.check)
    <3>1. \A x \in Workers : worker[x].stage = "changed" => worker'[x] = worker[x]  BY <1>1, <1>9
    <3> QED  BY <1>11, <3>1 DEF Unread
  <2>2. e.status = checks[e.check].status  BY <1>11, <2>1 DEF NewestReportIsCurrent
  <2>3. CASE e.check = i
    <3>1. ~Changed(c, new)
      <4>1. Changed(c, new) => worker'[w].stage = "changed" /\ worker'[w].check = i  BY <1>5, <1>9
      <4> QED  BY <1>11, <2>3, <4>1 DEF Unread
    <3>2. new.status = c.status  BY <3>1 DEF Changed
    <3> QED  BY <1>10, <2>2, <2>3, <3>2
  <2>4. CASE e.check # i
    <3>1. e.check \in DOMAIN checks \/ e = NoStatus
      <4>1. e \in Ev(n) \cup {NoStatus}  BY ReportsTyped
      <4>2. DOMAIN checks = 1 .. n  BY <1>0
      <4> QED  BY <4>1, <4>2 DEF Ev
    <3>2. e # NoStatus  BY <1>11 DEF NoStatus
    <3> QED  BY <1>10, <2>2, <2>4, <3>1, <3>2
  <2> QED  BY <2>3, <2>4
<1> QED  BY <1>8, <1>11 DEF NewestReportIsCurrent

(* After Info the reports are the new one and the old ones, outdated.      *)
LEMMA InfoReports ==
  ASSUME CountersInv, ReportInv, NEW w \in Workers, Info(w)
  PROVE  /\ \A e \in Reports' : e = InfoEvent(w) \/ \E f \in Reports : e = Outdate(f, worker[w].check)
         /\ InfoEvent(w) \in Reports'
         /\ \A f \in Reports : Outdate(f, worker[w].check) \in Reports'
<1> DEFINE c == worker[w].check
           n == Len(checks)
<1>1. /\ c \in 1 .. n /\ n \in Nat
      /\ worker'[w] = [stage |-> "notify", check |-> c, event |-> InfoEvent(w)]
      /\ \A x \in Workers \ {w} :
            /\ worker'[x].stage = worker[x].stage
            /\ worker[x].stage = "notify" => worker'[x].event = Outdate(worker[x].event, c)
      /\ events' = OutdateAll(events, c) /\ unsent' = OutdateAll(unsent, c)
      /\ db' = [t \in Targets |-> Outdate(db[t], c)]
  BY InfoSteps
<1>2. events \in Seq(Ev(n)) /\ unsent \in Seq(Ev(n))  BY DEF ReportInv
<1>3. worker[w].stage = "changed"  BY DEF Info
<1> HIDE DEF c, n
<1>4. \A q \in Seq(Ev(n)) : ToSet(OutdateAll(q, c)) = {Outdate(f, c) : f \in ToSet(q)}
  <2> SUFFICES ASSUME NEW q \in Seq(Ev(n)) PROVE ToSet(OutdateAll(q, c)) = {Outdate(f, c) : f \in ToSet(q)}
    OBVIOUS
  <2>1. DOMAIN OutdateAll(q, c) = DOMAIN q /\ \A i \in DOMAIN q : OutdateAll(q, c)[i] = Outdate(q[i], c)
    BY <1>1, AllOutdated
  <2> QED  BY <2>1 DEF ToSet
<1>5. ToSet(events') = {Outdate(f, c) : f \in ToSet(events)} /\ ToSet(unsent') = {Outdate(f, c) : f \in ToSet(unsent)}
  BY <1>1, <1>2, <1>4
<1>6. Rows(db') = {Outdate(f, c) : f \in Rows(db)}
  <2>1. \A t \in Targets : db'[t] = Outdate(db[t], c)  BY <1>1
  <2> QED  BY <2>1 DEF Rows
<1>7. worker'[w].stage = "notify" /\ worker'[w].event = InfoEvent(w)  BY <1>1
<1>8. Notes(worker') = {InfoEvent(w)} \cup {Outdate(f, c) : f \in Notes(worker)}
  <2>1. {InfoEvent(w)} \cup {Outdate(f, c) : f \in Notes(worker)} \subseteq Notes(worker')
    <3>1. InfoEvent(w) \in Notes(worker')  BY <1>7 DEF Notes
    <3>2. ASSUME NEW f \in Notes(worker) PROVE Outdate(f, c) \in Notes(worker')
      <4>1. PICK x \in Workers : worker[x].stage = "notify" /\ f = worker[x].event  BY <3>2 DEF Notes
      <4>2. x # w  BY <1>3, <4>1
      <4> QED  BY <1>1, <4>1, <4>2 DEF Notes
    <3> QED  BY <3>1, <3>2
  <2>2. ASSUME NEW e \in Notes(worker') PROVE e = InfoEvent(w) \/ \E f \in Notes(worker) : e = Outdate(f, c)
    <3>1. PICK x \in Workers : worker'[x].stage = "notify" /\ e = worker'[x].event  BY <2>2 DEF Notes
    <3>2. CASE x = w  BY <1>7, <3>1, <3>2
    <3>3. CASE x # w
      <4>1. worker[x].stage = "notify" /\ e = Outdate(worker[x].event, c)  BY <1>1, <3>1, <3>3
      <4> QED  BY <4>1 DEF Notes
    <3> QED  BY <3>2, <3>3
  <2> QED  BY <2>1, <2>2
<1>9. Reports = ToSet(events) \cup ToSet(unsent) \cup Notes(worker) \cup Rows(db)  BY ReportPlaces
<1>10. Reports' = ToSet(events') \cup ToSet(unsent') \cup Notes(worker') \cup Rows(db')  BY ReportPlaces
<1>11. Reports' = {InfoEvent(w)} \cup {Outdate(f, c) : f \in Reports}
  BY <1>5, <1>6, <1>8, <1>9, <1>10
<1> QED  BY <1>11 DEF c

LEMMA CurrentInfo ==
  ASSUME CountersInv, ReportInv, NewestReportIsCurrent, NEW w \in Workers, Info(w)
  PROVE  NewestReportIsCurrent'
<1> DEFINE c == worker[w].check
           n == Len(checks)
<1>1. /\ c \in 1 .. n /\ n \in Nat /\ checks' = checks
      /\ \A x \in Workers \ {w} : worker[x].stage = "changed" => worker'[x] = worker[x]
  BY InfoSteps
<1>2. ASSUME NEW e \in Reports', e.fresh, ~Unread(e.check)' PROVE e.status = checks[e.check].status
  <2>1. CASE e = InfoEvent(w)
    <3>1. e.check = c /\ e.status = checks[c].status  BY <2>1 DEF InfoEvent
    <3> QED  BY <3>1
  <2>2. CASE \E f \in Reports : e = Outdate(f, c)
    <3>1. PICK f \in Reports : e = Outdate(f, c)  BY <2>2
    <3>2. f \in Ev(n) \cup {NoStatus}  BY ReportsTyped
    <3> HIDE DEF c, n
    <3>3. e.check = f.check /\ e.status = f.status /\ f.fresh /\ f.check # c  BY <1>1, <1>2, <3>1, <3>2, Outdated
    <3>4. ~Unread(f.check)
      <4>1. SUFFICES ASSUME Unread(f.check) PROVE FALSE
        OBVIOUS
      <4>2. PICK x \in Workers : worker[x].stage = "changed" /\ worker[x].check = f.check  BY <4>1 DEF Unread
      <4>3. x # w  BY <3>3, <4>2 DEF c
      <4>4. worker'[x] = worker[x]  BY <1>1, <4>2, <4>3
      <4> QED  BY <1>2, <3>3, <4>2, <4>4 DEF Unread
    <3> QED  BY <3>3, <3>4 DEF NewestReportIsCurrent
  <2> QED  BY <2>1, <2>2, InfoReports
<1> QED  BY <1>1, <1>2 DEF NewestReportIsCurrent

LEMMA CurrentAdd ==
  ASSUME CountersInv, ReportInv, NewestReportIsCurrent, NEW t \in Targets, SchedulerAdd(t)
  PROVE  NewestReportIsCurrent'
<1>1. checks' = Append(checks, NewHealthCheck(t)) /\ UNCHANGED <<worker, events, unsent, db>>
  BY DEF SchedulerAdd, sender
<1>2. Reports' = Reports  BY <1>1, ReportPlaces
<1>3. checks \in Seq(Check)  BY DEF CountersInv
<1>4. \A j \in 1 .. Len(checks) : checks'[j] = checks[j]  BY <1>1, <1>3
<1>5. ASSUME NEW e \in Reports, e.fresh PROVE checks'[e.check] = checks[e.check]
  <2>1. e \in Ev(Len(checks)) \cup {NoStatus}  BY ReportsTyped
  <2>2. e # NoStatus  BY <1>5 DEF NoStatus
  <2>3. e.check \in 1 .. Len(checks)  BY <2>1, <2>2 DEF Ev
  <2> QED  BY <1>4, <2>3
<1>6. ASSUME NEW e \in Reports, e.fresh, ~Unread(e.check)' PROVE e.status = checks'[e.check].status
  <2>1. ~Unread(e.check)  BY <1>1, <1>6 DEF Unread
  <2> QED  BY <1>5, <1>6, <2>1 DEF NewestReportIsCurrent
<1> QED  BY <1>2, <1>6 DEF NewestReportIsCurrent

LEMMA CurrentNotify ==
  ASSUME CountersInv, ReportInv, NEW w \in Workers, NotifyHcStatusChanged(w)
  PROVE  Reports' = Reports /\ SameUnread /\ checks' = checks
<1> DEFINE n == Len(checks)
<1>0. n \in Nat /\ worker \in [Workers -> WorkerStates(n)] /\ events \in Seq(Ev(n))  BY DEF CountersInv, ReportInv
<1>1. /\ worker[w].stage = "notify" /\ events' = Append(events, worker[w].event)
      /\ worker' = [worker EXCEPT ![w] = Free] /\ UNCHANGED <<checks, unsent, db>>
  BY DEF NotifyHcStatusChanged, sender
<1>2. worker[w] \in WorkerStates(n)  BY <1>0
<1>3. worker[w].event \in Ev(n)  BY <1>0, <1>1, <1>2, WorkerShape
<1>4. ToSet(events') = ToSet(events) \cup {worker[w].event}  BY <1>0, <1>1, <1>3, Appended
<1>5. worker'[w].stage = "free" /\ \A x \in Workers : x # w => worker'[x] = worker[x]  BY <1>0, <1>1 DEF Free
<1>6. Notes(worker) = Notes(worker') \cup {worker[w].event}
  <2>1. Notes(worker') \subseteq Notes(worker)
    <3> SUFFICES ASSUME NEW x \in Workers, worker'[x].stage = "notify" PROVE worker'[x].event \in Notes(worker)
      BY DEF Notes
    <3>1. x # w  BY <1>5
    <3> QED  BY <1>5, <3>1 DEF Notes
  <2>2. worker[w].event \in Notes(worker)  BY <1>1 DEF Notes
  <2>3. \A x \in Workers : worker[x].stage = "notify" => x = w \/ worker[x].event \in Notes(worker')
    BY <1>5 DEF Notes
  <2>4. Notes(worker) \subseteq Notes(worker') \cup {worker[w].event}  BY <2>3 DEF Notes
  <2> QED  BY <2>1, <2>2, <2>4
<1>7. Reports' = Reports  BY <1>1, <1>4, <1>6, ReportPlaces
<1>8. SameUnread  BY <1>1, <1>5 DEF SameUnread
<1> QED  BY <1>1, <1>7, <1>8

LEMMA CurrentNext ==
  ASSUME CountersInv, HeapInv, ReportInv, NewestReportIsCurrent, [Next]_vars
  PROVE  NewestReportIsCurrent'
<1> DEFINE n == Len(checks)
<1>0. n \in Nat /\ worker \in [Workers -> WorkerStates(n)] /\ events \in Seq(Ev(n)) /\ unsent \in Seq(Ev(n))
  BY DEF CountersInv, ReportInv
<1>1. ASSUME NEW t \in Targets, SchedulerAdd(t) PROVE NewestReportIsCurrent'  BY <1>1, CurrentAdd
<1>2. CASE UNCHANGED <<checks, worker, events, unsent, db>>
  <2>1. Reports' = Reports  BY <1>2, ReportPlaces
  <2>2. SameUnread  BY <1>2 DEF SameUnread
  <2> QED  BY <1>2, <2>1, <2>2, CurrentMoved
<1>3. ASSUME NEW t \in Targets, SchedulerRemove(t) PROVE NewestReportIsCurrent'
  BY <1>2, <1>3 DEF SchedulerRemove, sender
<1>4. CASE TimePasses \/ SchedulerStep \/ UNCHANGED vars
  BY <1>2, <1>4 DEF TimePasses, SchedulerStep, TimerFires, RunIteration, BlockOnExecutor, sender, vars
<1>5. ASSUME NEW w \in Workers, TakeTask(w) PROVE NewestReportIsCurrent'
  <2> DEFINE s == [stage |-> "run", check |-> Head(input)]
  <2>1. worker[w].stage = "free" /\ worker' = [worker EXCEPT ![w] = s] /\ UNCHANGED <<checks, events, unsent, db>>
    BY <1>5 DEF TakeTask, sender
  <2>2. s.stage = "run"  OBVIOUS
  <2> HIDE DEF s
  <2>3. Notes(worker') = Notes(worker)  BY <1>0, <2>1, <2>2, NotesKept
  <2>4. Reports' = Reports  BY <2>1, <2>3, ReportPlaces
  <2>5. SameUnread  BY <1>0, <2>1, <2>2 DEF SameUnread
  <2> QED  BY <2>1, <2>4, <2>5, CurrentMoved
<1>6. ASSUME NEW w \in Workers, DoHealthCheckIteration(w) \/ Info(w) PROVE NewestReportIsCurrent'
  BY <1>6, CurrentProbe, CurrentInfo
<1>7. ASSUME NEW w \in Workers, NotifyHcStatusChanged(w) PROVE NewestReportIsCurrent'
  BY <1>7, CurrentNotify, CurrentMoved
<1>8. ASSUME UNCHANGED <<checks, worker>>, Reports' \subseteq Reports PROVE NewestReportIsCurrent'
  <2>1. SameUnread  BY <1>8 DEF SameUnread
  <2> QED  BY <1>8, <2>1, CurrentMoved
<1>9. CASE SendEvent \/ SendEventFails
  <2>1. /\ events # <<>> /\ events' = Tail(events) /\ UNCHANGED <<checks, worker>>
        /\ unsent' \in {unsent, Append(unsent, Head(events))}
        /\ db' = db \/ db' = UpdateTargetsStatuses(<<Head(events)>>)
    BY <1>9 DEF SendEvent, SendEventFails
  <2>2. ToSet(events) = {Head(events)} \cup ToSet(events')  BY <1>0, <2>1, Tailed
  <2>3. Head(events) \in Ev(n)  BY <1>0, <2>1
  <2>4. ToSet(unsent') \subseteq ToSet(unsent) \cup {Head(events)}
    <3>1. ToSet(Append(unsent, Head(events))) = ToSet(unsent) \cup {Head(events)}  BY <1>0, <2>3, Appended
    <3> QED  BY <2>1, <3>1
  <2>5. <<Head(events)>> \in Seq(Ev(n)) /\ ToSet(<<Head(events)>>) = {Head(events)}
    <3>1. <<Head(events)>> \in Seq(Ev(n))  BY <2>3
    <3>2. DOMAIN <<Head(events)>> = {1} /\ <<Head(events)>>[1] = Head(events)  OBVIOUS
    <3> QED  BY <3>1, <3>2 DEF ToSet
  <2>6. Rows(db') \subseteq Rows(db) \cup {Head(events)}
    <3>1. CASE db' = db  BY <3>1
    <3>2. CASE db' = UpdateTargetsStatuses(<<Head(events)>>)
      <4>1. Rows(db') \subseteq Rows(db) \cup ToSet(<<Head(events)>>)  BY <2>5, <3>2, RowsMoved
      <4> QED  BY <2>5, <4>1
    <3> QED  BY <2>1, <3>1, <3>2
  <2>7. Reports' \subseteq Reports  BY <2>1, <2>2, <2>4, <2>6, ReportPlaces
  <2> QED  BY <1>8, <2>1, <2>7
<1>10. CASE SendUnsentEvents
  <2>1. db' = UpdateTargetsStatuses(unsent) /\ unsent' = <<>> /\ UNCHANGED <<checks, worker, events>>
    BY <1>10 DEF SendUnsentEvents, Cleared
  <2>2. Rows(db') \subseteq Rows(db) \cup ToSet(unsent)  BY <1>0, <2>1, RowsMoved
  <2>3. ToSet(unsent') = {}  BY <2>1 DEF ToSet
  <2>4. Reports' \subseteq Reports  BY <2>1, <2>2, <2>3, ReportPlaces
  <2> QED  BY <1>8, <2>1, <2>4
<1>11. CASE SendUnsentEventsFails
  <2>1. UNCHANGED <<checks, worker, events, db>>  BY <1>11 DEF SendUnsentEventsFails
  <2>2. PICK d \in 0 .. Len(unsent) - 1 : unsent' = SubSeq(unsent, d + 1, Len(unsent))
    BY <1>11 DEF SendUnsentEventsFails
  <2>3. ToSet(unsent') \subseteq ToSet(unsent)
    <3>1. Len(unsent) \in Nat /\ DOMAIN unsent = 1 .. Len(unsent)  BY <1>0
    <3>2. DOMAIN unsent' = 1 .. Len(unsent) - d /\ \A j \in 1 .. Len(unsent) - d : unsent'[j] = unsent[j + d]
      BY <1>0, <2>2, <3>1
    <3>3. \A j \in 1 .. Len(unsent) - d : j + d \in 1 .. Len(unsent)  BY <3>1
    <3> QED  BY <3>1, <3>2, <3>3 DEF ToSet
  <2>4. Reports' \subseteq Reports  BY <2>1, <2>3, ReportPlaces
  <2> QED  BY <1>8, <2>1, <2>4
<1> QED  BY <1>1, <1>3, <1>4, <1>5, <1>6, <1>7, <1>9, <1>10, <1>11 DEF Next, WorkerStep

-----------------------------------------------------------------------------
(* The order of the work on a target.                                      *)
LEMMA Ranges ==
  ASSUME CountersInv, HeapInv, ReportInv
  PROVE  /\ Len(checks) \in Nat
         /\ \A y \in Held \cup Waiting : y \in 1 .. Len(checks)
         /\ \A i \in DOMAIN events : events[i] \in Ev(Len(checks)) /\ events[i].check \in 1 .. Len(checks)
         /\ \A t \in Targets : db[t] \in Ev(Len(checks)) \cup {NoStatus} /\ db[t].check \in 0 .. Len(checks)
         /\ \A w \in Notifying : /\ worker[w].event \in Ev(Len(checks)) /\ worker[w].event.check = worker[w].check
                                 /\ w \in Working /\ worker[w].check \in Held
         /\ \A w \in Working : worker[w].check \in 1 .. Len(checks) /\ w \in Workers
         /\ \A c \in 1 .. Len(checks) : TargetOf(c) \in Targets
<1> DEFINE n == Len(checks)
<1>0. /\ n \in Nat /\ worker \in [Workers -> WorkerStates(n)] /\ events \in Seq(Ev(n))
      /\ db \in [Targets -> Ev(n) \cup {NoStatus}] /\ heap \in Seq(1 .. n) /\ input \in Seq(1 .. n)
      /\ checks \in Seq(Check)
  BY DEF CountersInv, HeapInv, ReportInv
<1>1. \A c \in 1 .. n : TargetOf(c) \in Targets
  <2>1. \A c \in 1 .. n : checks[c] \in Check  BY <1>0
  <2> QED  BY <2>1 DEF TargetOf, Check
<1> HIDE DEF n
<1>2. ASSUME NEW w \in Workers
      PROVE  /\ worker[w].stage # "free" => worker[w].check \in 1 .. n
             /\ worker[w].stage = "notify" => worker[w].event \in Ev(n) /\ worker[w].event.check = worker[w].check
  <2>1. worker[w] \in WorkerStates(n)  BY <1>0
  <2> QED  BY <1>0, <2>1, WorkerShape
<1>3. \A w \in Working : worker[w].check \in 1 .. n /\ w \in Workers  BY <1>2 DEF Working
<1>4. ToSet(heap) \subseteq 1 .. n /\ ToSet(input) \subseteq 1 .. n  BY <1>0, Elements
<1>5. \A y \in Held \cup Waiting : y \in 1 .. n  BY <1>3, <1>4 DEF Held, Waiting
<1>6. \A i \in DOMAIN events : events[i] \in Ev(n)  BY <1>0, Elements
<1>7. \A e \in Ev(n) : e.check \in 1 .. n  BY DEF Ev
<1>8. \A t \in Targets : db[t] \in Ev(n) \cup {NoStatus} /\ db[t].check \in 0 .. n
  <2> SUFFICES ASSUME NEW t \in Targets PROVE db[t] \in Ev(n) \cup {NoStatus} /\ db[t].check \in 0 .. n
    OBVIOUS
  <2>1. db[t] \in Ev(n) \cup {NoStatus}  BY <1>0
  <2>2. NoStatus.check \in 0 .. n  BY <1>0 DEF NoStatus
  <2> QED  BY <1>0, <1>7, <2>1, <2>2
<1>9. \A w \in Notifying : /\ worker[w].event \in Ev(n) /\ worker[w].event.check = worker[w].check
                           /\ w \in Working /\ worker[w].check \in Held
  BY <1>2 DEF Notifying, Working, Held
<1> QED  BY <1>0, <1>1, <1>3, <1>5, <1>6, <1>7, <1>8, <1>9 DEF n

(* A step that takes nothing up and moves no report.                       *)
LEMMA OrderSub ==
  ASSUME CountersInv, CountersInv', HeapInv, ReportInv, Order, Kept(checks, checks'),
         UNCHANGED <<events, db, input>>, ToSet(heap') \subseteq ToSet(heap),
         \A x \in Workers : worker'[x].stage # "free" =>
                                worker[x].stage # "free" /\ worker'[x].check = worker[x].check,
         \A x \in Workers : worker'[x].stage = "notify" => worker'[x] = worker[x]
  PROVE  Order'
<1> DEFINE n == Len(checks)
<1>0. checks \in Seq(Check) /\ checks' \in Seq(Check)  BY DEF CountersInv
<1>1. \A c \in 1 .. n : checks'[c].target = checks[c].target  BY <1>0, NumbersKept
<1>2. \A c \in 1 .. n : TargetOf(c)' = TargetOf(c)  BY <1>1 DEF TargetOf
<1>3. /\ \A y \in Held \cup Waiting : y \in 1 .. n
      /\ \A i \in DOMAIN events : events[i].check \in 1 .. n
      /\ \A w \in Working : worker[w].check \in 1 .. n
      /\ \A w \in Notifying : w \in Working
  BY Ranges
<1>4. Held' \subseteq Held /\ Waiting' \subseteq Waiting  BY DEF Held, Waiting, Working
<1>5. /\ \A x \in Working' : x \in Working /\ worker'[x].check = worker[x].check
      /\ \A x \in Notifying' : x \in Notifying /\ worker'[x] = worker[x]
  BY DEF Working, Notifying
<1>6. OneWorker'
  <2> SUFFICES ASSUME NEW w \in Working', NEW x \in Working', w # x
               PROVE  TargetOf(worker[w].check)' # TargetOf(worker[x].check)'
    BY DEF OneWorker
  <2>1. worker[w].check \in 1 .. n /\ worker[x].check \in 1 .. n  BY <1>3, <1>5
  <2>2. checks'[worker'[w].check].target = TargetOf(worker[w].check)
        /\ checks'[worker'[x].check].target = TargetOf(worker[x].check)
    BY <1>1, <1>5, <2>1 DEF TargetOf
  <2>3. TargetOf(worker[w].check) # TargetOf(worker[x].check)  BY <1>5 DEF Order, OneWorker
  <2> QED  BY <2>2, <2>3 DEF TargetOf
<1>7. \A i \in DOMAIN events : TargetOf(events[i].check)' = TargetOf(events[i].check)
  BY <1>1, <1>3 DEF TargetOf
<1>8. RowFirst' /\ EventsInOrder'
  BY <1>7 DEF Order, EventOrder, RowFirst, EventsInOrder
<1>9. NotesLast'
  <2> SUFFICES ASSUME NEW w \in Notifying'
               PROVE  /\ Precedes(db[TargetOf(worker[w].check)], worker[w].event)'
                      /\ \A i \in DOMAIN events : TargetOf(events[i].check)' = TargetOf(worker[w].check)'
                            => Precedes(events[i], worker[w].event)'
    BY DEF NotesLast
  <2>1. w \in Notifying /\ worker'[w] = worker[w] /\ worker[w].check \in 1 .. n  BY <1>3, <1>5
  <2>2. TargetOf(worker[w].check)' = TargetOf(worker[w].check)  BY <1>1, <2>1 DEF TargetOf
  <2> QED  BY <1>7, <2>1, <2>2 DEF Order, EventOrder, NotesLast
<1>10. \A y \in Held' \cup Waiting' : y \in Held \cup Waiting /\ checks'[y].target = TargetOf(y)
  BY <1>1, <1>3, <1>4 DEF TargetOf
<1>11. RowNotAfter'
  <2>1. \A t \in Targets, y \in Held' \cup Waiting' : checks'[y].target = t => db'[t].check <= y
    BY <1>10 DEF Order, WorkOrder, RowNotAfter
  <2> QED  BY <2>1 DEF RowNotAfter, TargetOf
<1>12. EventsNotAfter'
  <2>1. \A i \in DOMAIN events, y \in Held' \cup Waiting' :
          checks'[y].target = TargetOf(events[i].check) => events[i].check <= y
    BY <1>10 DEF Order, WorkOrder, EventsNotAfter
  <2> QED  BY <1>7, <2>1 DEF EventsNotAfter, TargetOf
<1>13. HeldNotAfter'
  <2>1. \A c \in Held', y \in Waiting' : checks'[y].target = checks'[c].target => c <= y
    BY <1>4, <1>10 DEF Order, WorkOrder, HeldNotAfter
  <2> QED  BY <2>1 DEF HeldNotAfter, TargetOf
<1>14. InputInOrder'
  <2>1. \A i \in DOMAIN input : input[i] \in Waiting  BY DEF Waiting, ToSet
  <2>2. \A i \in DOMAIN input : checks'[input[i]].target = TargetOf(input[i])
    BY <1>1, <1>3, <2>1 DEF TargetOf
  <2> QED  BY <2>2 DEF Order, WorkOrder, InputInOrder, TargetOf
<1>15. InputNotAfter'
  <2>1. ToSet(input') = ToSet(input)  OBVIOUS
  <2>2. \A c \in ToSet(input), y \in ToSet(heap') : checks'[y].target = checks'[c].target => c <= y
    <3>1. \A c \in ToSet(input) \cup ToSet(heap) : checks'[c].target = TargetOf(c)
      BY <1>1, <1>3 DEF TargetOf, Waiting
    <3> QED  BY <3>1 DEF Order, WorkOrder, InputNotAfter
  <2> QED  BY <2>1, <2>2 DEF InputNotAfter, TargetOf
<1> QED  BY <1>6, <1>8, <1>9, <1>11, <1>12, <1>13, <1>14, <1>15 DEF Order, EventOrder, WorkOrder

LEMMA OrderAdd ==
  ASSUME CountersInv, CountersInv', HeapInv, ReportInv, Order, NEW t \in Targets, SchedulerAdd(t),
         Kept(checks, checks')
  PROVE  Order'
<1> DEFINE n == Len(checks)
<1>0. checks \in Seq(Check) /\ checks' \in Seq(Check)  BY DEF CountersInv
<1>1. \A c \in 1 .. n : checks'[c].target = checks[c].target  BY <1>0, NumbersKept
<1>2. UNCHANGED <<input, worker, events, db>>  BY DEF SchedulerAdd, sender
<1>3. ToSet(heap') = ToSet(heap) \cup {n + 1}  BY HeapAdd
<1>4. /\ n \in Nat
      /\ \A y \in Held \cup Waiting : y \in 1 .. n
      /\ \A i \in DOMAIN events : events[i].check \in 1 .. n
      /\ \A s \in Targets : db[s].check \in 0 .. n
      /\ \A w \in Working : worker[w].check \in 1 .. n
      /\ \A w \in Notifying : w \in Working
  BY Ranges
<1>5. Held' = Held /\ Working' = Working /\ Notifying' = Notifying  BY <1>2 DEF Held, Working, Notifying
<1>6. Waiting' = Waiting \cup {n + 1}  BY <1>2, <1>3 DEF Waiting
<1>7. \A c \in 0 .. n : c <= n + 1  BY <1>4
<1>8. \A y \in Held \cup Waiting : checks'[y].target = TargetOf(y)  BY <1>1, <1>4 DEF TargetOf
<1>9. \A i \in DOMAIN events : checks'[events[i].check].target = TargetOf(events[i].check)
  BY <1>1, <1>4 DEF TargetOf
<1>10. \A w \in Working : checks'[worker[w].check].target = TargetOf(worker[w].check)
  BY <1>1, <1>4 DEF TargetOf
<1>11. OneWorker'  BY <1>2, <1>5, <1>10 DEF Order, OneWorker, TargetOf
<1>12. RowFirst' /\ EventsInOrder'
  BY <1>2, <1>9 DEF Order, EventOrder, RowFirst, EventsInOrder, TargetOf
<1>13. NotesLast'
  BY <1>2, <1>4, <1>5, <1>9, <1>10 DEF Order, EventOrder, NotesLast, TargetOf
<1>14. RowNotAfter'
  <2>1. \A s \in Targets, y \in Held \cup Waiting : checks'[y].target = s => db[s].check <= y
    BY <1>8 DEF Order, WorkOrder, RowNotAfter
  <2>2. \A s \in Targets : db[s].check <= n + 1  BY <1>4, <1>7
  <2> QED  BY <1>2, <1>5, <1>6, <2>1, <2>2 DEF RowNotAfter, TargetOf
<1>15. EventsNotAfter'
  <2>1. \A i \in DOMAIN events, y \in Held \cup Waiting :
          checks'[y].target = checks'[events[i].check].target => events[i].check <= y
    BY <1>8, <1>9 DEF Order, WorkOrder, EventsNotAfter
  <2>2. \A i \in DOMAIN events : events[i].check <= n + 1  BY <1>4, <1>7
  <2> QED  BY <1>2, <1>5, <1>6, <2>1, <2>2 DEF EventsNotAfter, TargetOf
<1>16. HeldNotAfter'
  <2>1. \A c \in Held, y \in Waiting : checks'[y].target = checks'[c].target => c <= y
    BY <1>8 DEF Order, WorkOrder, HeldNotAfter
  <2>2. \A c \in Held : c <= n + 1  BY <1>4, <1>7
  <2> QED  BY <1>5, <1>6, <2>1, <2>2 DEF HeldNotAfter, TargetOf
<1>17. InputInOrder'
  <2>1. \A i \in DOMAIN input : input[i] \in Waiting  BY DEF Waiting, ToSet
  <2> QED  BY <1>2, <1>8, <2>1 DEF Order, WorkOrder, InputInOrder, TargetOf
<1>18. InputNotAfter'
  <2>1. \A c \in ToSet(input), y \in ToSet(heap) : checks'[y].target = checks'[c].target => c <= y
    BY <1>8 DEF Order, WorkOrder, InputNotAfter, Waiting
  <2>2. \A c \in ToSet(input) : c <= n + 1  BY <1>4, <1>7 DEF Waiting
  <2>3. ToSet(input') = ToSet(input)  BY <1>2
  <2> QED  BY <1>3, <2>1, <2>2, <2>3 DEF InputNotAfter, TargetOf
<1> QED  BY <1>11, <1>12, <1>13, <1>14, <1>15, <1>16, <1>17, <1>18 DEF Order, EventOrder, WorkOrder

(* The first check of the heap follows in the input of the executor.       *)
LEMMA OrderRun ==
  ASSUME CountersInv, HeapInv, ReportInv, Order, RunIteration, heap # <<>>, ToSet(heap') = ToSet(heap),
         input' = Append(input, Head(heap))
  PROVE  Order'
<1> DEFINE n == Len(checks)
           h == Head(heap)
<1>0. heap \in Seq(1 .. n) /\ input \in Seq(1 .. n) /\ Apart(checks, heap)  BY DEF HeapInv
<1>1. UNCHANGED <<checks, worker, events, db>>  BY DEF RunIteration, sender
<1>2. ToSet(heap) = {h} \cup ToSet(Tail(heap)) /\ h = heap[1] /\ 1 \in DOMAIN heap  BY <1>0, Tailed
<1>3. h \in ToSet(heap) /\ h \in 1 .. n  BY <1>0, <1>2, Elements
<1>4. /\ ToSet(input') = ToSet(input) \cup {h} /\ DOMAIN input' = DOMAIN input \cup {Len(input) + 1}
      /\ input'[Len(input) + 1] = h /\ \A j \in DOMAIN input : input'[j] = input[j] /\ j < Len(input) + 1
  BY <1>0, <1>3, Appended
<1> HIDE DEF h, n
<1>5. Waiting' = Waiting /\ Held' = Held /\ Working' = Working /\ Notifying' = Notifying
  BY <1>1, <1>3, <1>4 DEF Waiting, Held, Working, Notifying
<1>6. OneWorker' /\ RowFirst' /\ EventsInOrder' /\ NotesLast'
  BY <1>1, <1>5 DEF Order, EventOrder, OneWorker, RowFirst, EventsInOrder, NotesLast, TargetOf
<1>7. RowNotAfter' /\ EventsNotAfter' /\ HeldNotAfter'
  BY <1>1, <1>5 DEF Order, WorkOrder, RowNotAfter, EventsNotAfter, HeldNotAfter, TargetOf
<1>8. InputInOrder'
  <2> SUFFICES ASSUME NEW i \in DOMAIN input', NEW j \in DOMAIN input', i < j,
                      TargetOf(input'[i]) = TargetOf(input'[j])
               PROVE  input'[i] <= input'[j]
    BY <1>1 DEF InputInOrder, TargetOf
  <2>0. Len(input) \in Nat /\ DOMAIN input = 1 .. Len(input)  BY <1>0
  <2>1. i \in DOMAIN input  BY <1>4, <2>0
  <2>2. input'[i] = input[i] /\ input[i] \in ToSet(input)  BY <1>4, <2>1 DEF ToSet
  <2>3. CASE j \in DOMAIN input
    BY <1>4, <2>1, <2>2, <2>3 DEF Order, WorkOrder, InputInOrder
  <2>4. CASE j = Len(input) + 1
    BY <1>3, <1>4, <2>2, <2>4 DEF Order, WorkOrder, InputNotAfter
  <2> QED  BY <1>4, <2>3, <2>4
<1>9. InputNotAfter'
  <2> SUFFICES ASSUME NEW c \in ToSet(input'), NEW y \in ToSet(heap), TargetOf(y) = TargetOf(c) PROVE c <= y
    BY <1>1 DEF InputNotAfter, TargetOf
  <2>1. CASE c \in ToSet(input)  BY <2>1 DEF Order, WorkOrder, InputNotAfter
  <2>2. CASE c = h
    <3>1. PICK k \in DOMAIN heap : y = heap[k]  BY DEF ToSet
    <3>2. k = 1  BY <1>0, <1>2, <2>2, <3>1 DEF Apart, TargetOf
    <3>3. y = h /\ h \in Int  BY <1>2, <1>3, <3>1, <3>2 DEF n
    <3> QED  BY <2>2, <3>3
  <2> QED  BY <1>4, <2>1, <2>2
<1> QED  BY <1>6, <1>7, <1>8, <1>9 DEF Order, EventOrder, WorkOrder

(* A goroutine takes the first check of the input, and no other has one of *)
(* its target.                                                             *)
LEMMA OrderTake ==
  ASSUME CountersInv, HeapInv, ReportInv, Order, NEW w \in Workers, TakeTask(w), ~overlapped'
  PROVE  Order'
<1> DEFINE n == Len(checks)
           h == Head(input)
<1>0. heap \in Seq(1 .. n) /\ input \in Seq(1 .. n) /\ worker \in [Workers -> WorkerStates(n)]
  BY DEF HeapInv, ReportInv
<1>1. /\ worker[w].stage = "free" /\ input # <<>> /\ input' = Tail(input)
      /\ worker' = [worker EXCEPT ![w] = [stage |-> "run", check |-> h]]
      /\ UNCHANGED <<checks, heap, events, db>> /\ Busy(checks[h].target) = {}
  BY DEF TakeTask, scheduler, sender
<1>2. /\ ToSet(input) = {h} \cup ToSet(input') /\ h = input[1] /\ 1 \in DOMAIN input
      /\ \A j \in DOMAIN input' : j + 1 \in DOMAIN input /\ input'[j] = input[j + 1] /\ j \in Nat /\ j > 0
  BY <1>0, <1>1, Tailed
<1>3. h \in ToSet(input) /\ h \in 1 .. n  BY <1>0, <1>2, Elements
<1> HIDE DEF h, n
<1>4. /\ worker'[w].stage = "run" /\ worker'[w].check = h
      /\ \A x \in Workers : x # w => worker'[x] = worker[x]
  BY <1>0, <1>1
<1>5. /\ Working' = Working \cup {w} /\ w \notin Working /\ Notifying' = Notifying
      /\ \A x \in Working : x # w /\ worker'[x] = worker[x] /\ TargetOf(worker[x].check) # TargetOf(h)
      /\ \A x \in Notifying : worker'[x] = worker[x]
  BY <1>1, <1>4 DEF Working, Notifying, Busy, TargetOf
<1>6. Held' = Held \cup {h}
  BY <1>4, <1>5 DEF Held
<1>7. Waiting' \subseteq Waiting /\ h \in Waiting  BY <1>1, <1>2, <1>3 DEF Waiting
<1>8. OneWorker'
  <2> SUFFICES ASSUME NEW x \in Working', NEW y \in Working', x # y
               PROVE  TargetOf(worker'[x].check) # TargetOf(worker'[y].check)
    BY <1>1 DEF OneWorker, TargetOf
  <2>1. CASE x = w  BY <1>4, <1>5, <2>1
  <2>2. CASE y = w  BY <1>4, <1>5, <2>2
  <2>3. CASE x # w /\ y # w  BY <1>5, <2>3 DEF Order, OneWorker
  <2> QED  BY <2>1, <2>2, <2>3
<1>9. RowFirst' /\ EventsInOrder' /\ NotesLast'
  BY <1>1, <1>5 DEF Order, EventOrder, RowFirst, EventsInOrder, NotesLast, TargetOf
<1>10. \A y \in Held' \cup Waiting' : y \in Held \cup Waiting  BY <1>6, <1>7
<1>11. RowNotAfter' /\ EventsNotAfter'
  BY <1>1, <1>10 DEF Order, WorkOrder, RowNotAfter, EventsNotAfter, TargetOf
<1>12. InputInOrder'
  <2>1. \A i, j \in DOMAIN input' : i < j => i + 1 < j + 1  BY <1>2
  <2> QED  BY <1>1, <1>2, <2>1 DEF Order, WorkOrder, InputInOrder, TargetOf
<1>13. InputNotAfter'
  BY <1>1, <1>2 DEF Order, WorkOrder, InputNotAfter, TargetOf
<1>14. HeldNotAfter'
  <2> SUFFICES ASSUME NEW c \in Held', NEW y \in Waiting', TargetOf(y) = TargetOf(c) PROVE c <= y
    BY <1>1 DEF HeldNotAfter, TargetOf
  <2>1. CASE c \in Held  BY <1>7, <2>1 DEF Order, WorkOrder, HeldNotAfter
  <2>2. CASE c = h /\ y \in ToSet(input')
    <3>1. PICK j \in DOMAIN input' : y = input'[j]  BY <2>2 DEF ToSet
    <3>2. j + 1 \in DOMAIN input /\ y = input[j + 1] /\ 1 < j + 1  BY <1>2, <3>1
    <3> QED  BY <1>2, <2>2, <3>2 DEF Order, WorkOrder, InputInOrder
  <2>3. CASE c = h /\ y \in ToSet(heap)
    BY <1>3, <2>3 DEF Order, WorkOrder, InputNotAfter
  <2> QED  BY <1>1, <1>6, <2>1, <2>2, <2>3 DEF Waiting
<1> QED  BY <1>8, <1>9, <1>11, <1>12, <1>13, <1>14 DEF Order, EventOrder, WorkOrder

(* The new report is the last one of its target, and fresh before it are   *)
(* only those of other checks.                                             *)
LEMMA OrderInfo ==
  ASSUME CountersInv, HeapInv, ReportInv, Order, NEW w \in Workers, Info(w)
  PROVE  Order'
<1> DEFINE c == worker[w].check
           n == Len(checks)
<1>0. events \in Seq(Ev(n)) /\ db \in [Targets -> Ev(n) \cup {NoStatus}] /\ worker[w].stage = "changed"
  BY DEF ReportInv, Info
<1>1. /\ c \in 1 .. n /\ n \in Nat /\ UNCHANGED <<checks, input, heap>>
      /\ worker'[w] = [stage |-> "notify", check |-> c, event |-> InfoEvent(w)]
      /\ \A x \in Workers \ {w} :
            /\ worker'[x].stage = worker[x].stage
            /\ worker[x].stage # "notify" => worker'[x] = worker[x]
            /\ worker[x].stage = "notify" => /\ worker'[x].check = worker[x].check
                                             /\ worker'[x].event = Outdate(worker[x].event, c)
      /\ events' = OutdateAll(events, c)
      /\ db' = [t \in Targets |-> Outdate(db[t], c)]
  BY InfoSteps
<1>2. /\ \A y \in Held \cup Waiting : y \in 1 .. n
      /\ \A i \in DOMAIN events : events[i] \in Ev(n) /\ events[i].check \in 1 .. n
      /\ \A t \in Targets : db[t] \in Ev(n) \cup {NoStatus} /\ db[t].check \in 0 .. n
      /\ \A x \in Notifying : worker[x].event \in Ev(n) /\ worker[x].event.check = worker[x].check
      /\ \A d \in 1 .. n : TargetOf(d) \in Targets
      /\ \A x \in Working : worker[x].check \in 1 .. n
      /\ \A x \in Notifying : x \in Working
  BY Ranges
<1>3. w \in Working /\ w \notin Notifying /\ c \in Held  BY <1>0 DEF Working, Notifying, Held
<1> HIDE DEF c, n
<1>4. /\ DOMAIN events' = DOMAIN events
      /\ \A i \in DOMAIN events : events'[i] = Outdate(events[i], c)
  BY <1>0, <1>1, AllOutdated
<1>5. \A i \in DOMAIN events : events'[i].check = events[i].check /\ (events'[i].fresh => events[i].fresh /\ events[i].check # c)
  <2> SUFFICES ASSUME NEW i \in DOMAIN events
               PROVE  events'[i].check = events[i].check /\ (events'[i].fresh => events[i].fresh /\ events[i].check # c)
    OBVIOUS
  <2>1. events'[i] = Outdate(events[i], c) /\ events[i] \in Ev(n)  BY <1>2, <1>4
  <2>2. \A e \in Ev(n) : Outdate(e, c).check = e.check /\ Outdate(e, c).fresh = (e.fresh /\ e.check # c)
    BY <1>1, Outdated
  <2> QED  BY <2>1, <2>2
<1>6. \A t \in Targets : db'[t].check = db[t].check /\ (db'[t].fresh => db[t].fresh /\ db[t].check # c)
  <2> SUFFICES ASSUME NEW t \in Targets
               PROVE  db'[t].check = db[t].check /\ (db'[t].fresh => db[t].fresh /\ db[t].check # c)
    OBVIOUS
  <2>1. db'[t] = Outdate(db[t], c) /\ db[t] \in Ev(n) \cup {NoStatus}  BY <1>1, <1>2
  <2> QED  BY <1>1, <2>1, Outdated
<1>7. worker'[w].stage = "notify" /\ worker'[w].check = c /\ worker'[w].event = InfoEvent(w)  BY <1>1
<1>8. InfoEvent(w).check = c  BY DEF InfoEvent, c
<1>9. /\ Working' = Working /\ \A x \in Working : worker'[x].check = worker[x].check
      /\ Notifying' = Notifying \cup {w}
  <2>1. \A x \in Workers : /\ worker'[x].stage # "free" <=> worker[x].stage # "free"
                           /\ worker[x].stage # "free" => worker'[x].check = worker[x].check
                           /\ worker'[x].stage = "notify" <=> x = w \/ worker[x].stage = "notify"
    BY <1>0, <1>1, <1>7 DEF c
  <2> QED  BY <2>1, <1>3 DEF Working, Notifying
<1>10. \A x \in Notifying : worker'[x].event.check = worker[x].check
  <2> SUFFICES ASSUME NEW x \in Notifying PROVE worker'[x].event.check = worker[x].check
    OBVIOUS
  <2>1. x \in Workers \ {w} /\ worker[x].stage = "notify"  BY <1>3 DEF Notifying
  <2>2. worker'[x].event = Outdate(worker[x].event, c)  BY <1>1, <2>1
  <2>3. worker[x].event \in Ev(n) \cup {NoStatus} /\ worker[x].event.check = worker[x].check  BY <1>2
  <2> QED  BY <1>1, <2>2, <2>3, Outdated
<1>11. Held' = Held /\ Waiting' = Waiting  BY <1>1, <1>9 DEF Held, Waiting
<1>12. OneWorker'  BY <1>1, <1>9 DEF Order, OneWorker, TargetOf
<1>13. RowFirst'
  <2> SUFFICES ASSUME NEW i \in DOMAIN events PROVE Precedes(db'[TargetOf(events[i].check)], events'[i])
    BY <1>1, <1>4, <1>5 DEF RowFirst, TargetOf
  <2>1. TargetOf(events[i].check) \in Targets  BY <1>2
  <2>2. Precedes(db[TargetOf(events[i].check)], events[i])  BY DEF Order, EventOrder, RowFirst
  <2> QED  BY <1>5, <1>6, <2>1, <2>2 DEF Precedes
<1>14. EventsInOrder'
  <2> SUFFICES ASSUME NEW i \in DOMAIN events, NEW j \in DOMAIN events, i < j,
                      TargetOf(events[i].check) = TargetOf(events[j].check)
               PROVE  Precedes(events'[i], events'[j])
    BY <1>1, <1>4, <1>5 DEF EventsInOrder, TargetOf
  <2>1. Precedes(events[i], events[j])  BY DEF Order, EventOrder, EventsInOrder
  <2> QED  BY <1>5, <2>1 DEF Precedes
<1>15. NotesLast'
  <2> SUFFICES ASSUME NEW x \in Notifying'
               PROVE  /\ Precedes(db'[TargetOf(worker'[x].check)], worker'[x].event)
                      /\ \A i \in DOMAIN events :
                            TargetOf(events[i].check) = TargetOf(worker'[x].check) => Precedes(events'[i], worker'[x].event)
    BY <1>1, <1>4, <1>5 DEF NotesLast, TargetOf
  <2>1. CASE x = w
    <3>1. TargetOf(c) \in Targets  BY <1>1, <1>2
    <3>2. db[TargetOf(c)].check <= c  BY <1>3, <3>1 DEF Order, WorkOrder, RowNotAfter
    <3>3. \A i \in DOMAIN events : TargetOf(events[i].check) = TargetOf(c) => events[i].check <= c
      BY <1>3 DEF Order, WorkOrder, EventsNotAfter
    <3>4. \A b \in 0 .. n : b <= c /\ b # c => b < c  BY <1>1
    <3>5. Precedes(db'[TargetOf(c)], InfoEvent(w))  BY <1>2, <1>6, <1>8, <3>1, <3>2, <3>4 DEF Precedes
    <3>6. \A i \in DOMAIN events : TargetOf(events[i].check) = TargetOf(c) => Precedes(events'[i], InfoEvent(w))
      <4> SUFFICES ASSUME NEW i \in DOMAIN events, TargetOf(events[i].check) = TargetOf(c)
                   PROVE  Precedes(events'[i], InfoEvent(w))
        OBVIOUS
      <4>1. events[i].check \in 0 .. n  BY <1>1, <1>2
      <4> QED  BY <1>5, <1>8, <3>3, <3>4, <4>1 DEF Precedes
    <3> QED  BY <1>7, <2>1, <3>5, <3>6
  <2>2. CASE x \in Notifying
    <3>1. /\ Precedes(db[TargetOf(worker[x].check)], worker[x].event)
          /\ \A i \in DOMAIN events :
                TargetOf(events[i].check) = TargetOf(worker[x].check) => Precedes(events[i], worker[x].event)
      BY <2>2 DEF Order, EventOrder, NotesLast
    <3>2. /\ worker'[x].check = worker[x].check /\ worker'[x].event.check = worker[x].event.check
          /\ TargetOf(worker[x].check) \in Targets
      BY <1>2, <1>9, <1>10, <2>2
    <3> QED  BY <1>5, <1>6, <3>1, <3>2 DEF Precedes
  <2> QED  BY <1>9, <2>1, <2>2
<1>16. RowNotAfter'
  <2>1. \A t \in Targets, y \in Held \cup Waiting : TargetOf(y) = t => db'[t].check <= y
    BY <1>6 DEF Order, WorkOrder, RowNotAfter
  <2> QED  BY <1>1, <1>11, <2>1 DEF RowNotAfter, TargetOf
<1>17. EventsNotAfter'
  <2>1. \A i \in DOMAIN events, y \in Held \cup Waiting :
          TargetOf(y) = TargetOf(events'[i].check) => events'[i].check <= y
    BY <1>5 DEF Order, WorkOrder, EventsNotAfter
  <2> QED  BY <1>1, <1>4, <1>11, <2>1 DEF EventsNotAfter, TargetOf
<1>18. HeldNotAfter' /\ InputInOrder' /\ InputNotAfter'
  BY <1>1, <1>11 DEF Order, WorkOrder, HeldNotAfter, InputInOrder, InputNotAfter, TargetOf
<1> QED  BY <1>12, <1>13, <1>14, <1>15, <1>16, <1>17, <1>18 DEF Order, EventOrder, WorkOrder

(* The report of a goroutine follows those of the channel.                 *)
LEMMA OrderNotify ==
  ASSUME CountersInv, HeapInv, ReportInv, Order, NEW w \in Workers, NotifyHcStatusChanged(w)
  PROVE  Order'
<1> DEFINE n == Len(checks)
           e == worker[w].event
           m == Len(events) + 1
<1>0. events \in Seq(Ev(n)) /\ worker \in [Workers -> WorkerStates(n)]  BY DEF ReportInv
<1>1. /\ worker[w].stage = "notify" /\ events' = Append(events, e)
      /\ worker' = [worker EXCEPT ![w] = Free] /\ UNCHANGED <<checks, heap, input, db>>
  BY DEF NotifyHcStatusChanged, sender, scheduler
<1>2. w \in Notifying /\ w \in Working  BY <1>1 DEF Notifying, Working
<1>3. e \in Ev(n) /\ e.check = worker[w].check /\ e.check \in Held  BY <1>2, Ranges
<1> HIDE DEF e, n
<1>4. /\ DOMAIN events' = DOMAIN events \cup {m} /\ events'[m] = e
      /\ \A j \in DOMAIN events : events'[j] = events[j] /\ j < m
  BY <1>0, <1>1, <1>3, Appended
<1>5. worker'[w].stage = "free" /\ \A x \in Workers : x # w => worker'[x] = worker[x]  BY <1>0, <1>1 DEF Free
<1>6. /\ \A x \in Working' : x \in Working /\ x # w /\ worker'[x] = worker[x]
      /\ \A x \in Notifying' : x \in Notifying /\ x # w /\ worker'[x] = worker[x] /\ x \in Working
  BY <1>5 DEF Working, Notifying
<1>7. Held' \subseteq Held /\ Waiting' = Waiting  BY <1>1, <1>6 DEF Held, Waiting
<1>8. /\ Precedes(db[TargetOf(e.check)], e)
      /\ \A i \in DOMAIN events : TargetOf(events[i].check) = TargetOf(e.check) => Precedes(events[i], e)
  BY <1>2, <1>3 DEF Order, EventOrder, NotesLast, e
<1>9. OneWorker'  BY <1>1, <1>6 DEF Order, OneWorker, TargetOf
<1>10. RowFirst'
  <2>1. \A i \in DOMAIN events' : Precedes(db[TargetOf(events'[i].check)], events'[i])
    BY <1>4, <1>8 DEF Order, EventOrder, RowFirst
  <2> QED  BY <1>1, <2>1 DEF RowFirst, TargetOf
<1>11. EventsInOrder'
  <2> SUFFICES ASSUME NEW i \in DOMAIN events', NEW j \in DOMAIN events', i < j,
                      TargetOf(events'[i].check) = TargetOf(events'[j].check)
               PROVE  Precedes(events'[i], events'[j])
    BY <1>1 DEF EventsInOrder, TargetOf
  <2>1. i \in DOMAIN events
    <3>1. Len(events) \in Nat /\ DOMAIN events = 1 .. Len(events)  BY <1>0
    <3> QED  BY <1>4, <3>1
  <2>2. CASE j \in DOMAIN events  BY <1>4, <2>1, <2>2 DEF Order, EventOrder, EventsInOrder
  <2>3. CASE j = m  BY <1>4, <1>8, <2>1, <2>3
  <2> QED  BY <1>4, <2>2, <2>3
<1>12. NotesLast'
  <2> SUFFICES ASSUME NEW x \in Notifying'
               PROVE  /\ Precedes(db[TargetOf(worker[x].check)], worker[x].event)
                      /\ \A i \in DOMAIN events' :
                            TargetOf(events'[i].check) = TargetOf(worker[x].check) => Precedes(events'[i], worker[x].event)
    BY <1>1, <1>6 DEF NotesLast, TargetOf
  <2>1. TargetOf(e.check) # TargetOf(worker[x].check)  BY <1>2, <1>3, <1>6 DEF Order, OneWorker
  <2> QED  BY <1>4, <1>6, <2>1 DEF Order, EventOrder, NotesLast
<1>13. RowNotAfter'
  BY <1>1, <1>7 DEF Order, WorkOrder, RowNotAfter, TargetOf
<1>14. EventsNotAfter'
  <2> SUFFICES ASSUME NEW i \in DOMAIN events', NEW y \in Held' \cup Waiting, TargetOf(y) = TargetOf(events'[i].check)
               PROVE  events'[i].check <= y
    BY <1>1, <1>7 DEF EventsNotAfter, TargetOf
  <2>1. CASE i \in DOMAIN events
    BY <1>4, <1>7, <2>1 DEF Order, WorkOrder, EventsNotAfter
  <2>2. CASE i = m /\ y \in Waiting
    BY <1>3, <1>4, <2>2 DEF Order, WorkOrder, HeldNotAfter
  <2>3. CASE i = m /\ y \in Held'
    <3>1. PICK x \in Working' : y = worker'[x].check  BY <2>3 DEF Held
    <3>2. y = worker[x].check /\ x \in Working /\ x # w  BY <1>6, <3>1
    <3>3. TargetOf(y) # TargetOf(e.check)  BY <1>2, <1>3, <3>2 DEF Order, OneWorker
    <3> QED  BY <1>4, <2>3, <3>3
  <2> QED  BY <1>4, <2>1, <2>2, <2>3
<1>15. HeldNotAfter' /\ InputInOrder' /\ InputNotAfter'
  BY <1>1, <1>7 DEF Order, WorkOrder, HeldNotAfter, InputInOrder, InputNotAfter, TargetOf
<1> QED  BY <1>9, <1>10, <1>11, <1>12, <1>13, <1>14, <1>15 DEF Order, EventOrder, WorkOrder

(* The first event of the channel becomes the row of its target.           *)
LEMMA SentRow ==
  ASSUME CountersInv, HeapInv, ReportInv, SendEvent
  PROVE  \A t \in Targets :
            db'[t] = IF t = TargetOf(Head(events).check) THEN Head(events) ELSE db[t]
<1> DEFINE b == <<Head(events)>>
<1>1. db' = UpdateTargetsStatuses(b) /\ events # <<>>  BY DEF SendEvent
<1>2. events \in Seq(Ev(Len(checks)))  BY DEF ReportInv
<1>3. Head(events) \in Ev(Len(checks))  BY <1>1, <1>2
<1>4. b \in Seq(Ev(Len(checks))) /\ DOMAIN b = {1} /\ b[1] = Head(events)  BY <1>3
<1> HIDE DEF b
<1>5. ASSUME NEW t \in Targets
      PROVE  db'[t] = IF t = TargetOf(Head(events).check) THEN Head(events) ELSE db[t]
  <2>1. \/ /\ db'[t] = db[t]
           /\ \A i \in DOMAIN b : TargetOf(b[i].check) # t
        \/ \E i \in DOMAIN b : db'[t] = b[i] /\ TargetOf(b[i].check) = t
    BY <1>1, <1>4, Updated
  <2> QED  BY <1>4, <2>1
<1> QED  BY <1>5

LEMMA OrderSend ==
  ASSUME CountersInv, HeapInv, ReportInv, Order, SendEvent
  PROVE  Order'
<1> DEFINE n == Len(checks)
           h == Head(events)
<1>0. events \in Seq(Ev(n))  BY DEF ReportInv
<1>1. events # <<>> /\ events' = Tail(events) /\ UNCHANGED <<checks, heap, input, worker>>
  BY DEF SendEvent, scheduler
<1>2. /\ h = events[1] /\ 1 \in DOMAIN events
      /\ \A j \in DOMAIN events' : j + 1 \in DOMAIN events /\ events'[j] = events[j + 1] /\ j \in Nat /\ j > 0
  BY <1>0, <1>1, Tailed
<1>3. \A t \in Targets : db'[t] = IF t = TargetOf(h.check) THEN h ELSE db[t]  BY SentRow
<1>4. /\ \A i \in DOMAIN events : events[i].check \in 1 .. n
      /\ \A d \in 1 .. n : TargetOf(d) \in Targets
      /\ \A x \in Working : worker[x].check \in 1 .. n
      /\ \A x \in Notifying : x \in Working
  BY Ranges
<1> HIDE DEF h, n
<1>5. Held' = Held /\ Waiting' = Waiting /\ Working' = Working /\ Notifying' = Notifying
  BY <1>1 DEF Held, Waiting, Working, Notifying
<1>6. OneWorker' /\ HeldNotAfter' /\ InputInOrder' /\ InputNotAfter'
  BY <1>1, <1>5 DEF Order, OneWorker, WorkOrder, HeldNotAfter, InputInOrder, InputNotAfter, TargetOf
<1>7. \A i \in DOMAIN events : i > 1 /\ TargetOf(events[i].check) = TargetOf(h.check) => Precedes(h, events[i])
  BY <1>2 DEF Order, EventOrder, EventsInOrder
<1>8. RowFirst'
  <2> SUFFICES ASSUME NEW j \in DOMAIN events' PROVE Precedes(db'[TargetOf(events'[j].check)], events'[j])
    BY <1>1 DEF RowFirst, TargetOf
  <2>1. j + 1 \in DOMAIN events /\ events'[j] = events[j + 1] /\ j + 1 > 1  BY <1>2
  <2>2. TargetOf(events[j + 1].check) \in Targets  BY <1>4, <2>1
  <2> QED  BY <1>3, <1>7, <2>1, <2>2 DEF Order, EventOrder, RowFirst
<1>9. EventsInOrder'
  <2>1. \A i, j \in DOMAIN events' : i < j => i + 1 < j + 1  BY <1>2
  <2> QED  BY <1>1, <1>2, <2>1 DEF Order, EventOrder, EventsInOrder, TargetOf
<1>10. NotesLast'
  <2> SUFFICES ASSUME NEW x \in Notifying
               PROVE  /\ Precedes(db'[TargetOf(worker[x].check)], worker[x].event)
                      /\ \A i \in DOMAIN events' :
                            TargetOf(events'[i].check) = TargetOf(worker[x].check) => Precedes(events'[i], worker[x].event)
    BY <1>1, <1>5 DEF NotesLast, TargetOf
  <2>1. TargetOf(worker[x].check) \in Targets  BY <1>4
  <2>2. /\ Precedes(db[TargetOf(worker[x].check)], worker[x].event)
        /\ \A i \in DOMAIN events :
              TargetOf(events[i].check) = TargetOf(worker[x].check) => Precedes(events[i], worker[x].event)
    BY DEF Order, EventOrder, NotesLast
  <2> QED  BY <1>2, <1>3, <2>1, <2>2
<1>11. EventsNotAfter'
  <2>1. \A j \in DOMAIN events', y \in Held \cup Waiting :
          TargetOf(y) = TargetOf(events'[j].check) => events'[j].check <= y
    BY <1>2 DEF Order, WorkOrder, EventsNotAfter
  <2> QED  BY <1>1, <1>5, <2>1 DEF EventsNotAfter, TargetOf
<1>12. RowNotAfter'
  <2>1. \A t \in Targets, y \in Held \cup Waiting : TargetOf(y) = t => db'[t].check <= y
    <3> SUFFICES ASSUME NEW t \in Targets, NEW y \in Held \cup Waiting, TargetOf(y) = t PROVE db'[t].check <= y
      OBVIOUS
    <3>1. CASE t = TargetOf(h.check)  BY <1>2, <1>3, <3>1 DEF Order, WorkOrder, EventsNotAfter
    <3>2. CASE t # TargetOf(h.check)  BY <1>3, <3>2 DEF Order, WorkOrder, RowNotAfter
    <3> QED  BY <3>1, <3>2
  <2> QED  BY <1>1, <1>5, <2>1 DEF RowNotAfter, TargetOf
<1> QED  BY <1>6, <1>8, <1>9, <1>10, <1>11, <1>12 DEF Order, EventOrder, WorkOrder

LEMMA OrderInit == Init => OrderInv
<1> SUFFICES ASSUME Init PROVE OrderInv
  OBVIOUS
<1>1. /\ events = <<>> /\ unsent = <<>> /\ heap = <<>> /\ input = <<>> /\ overlapped = FALSE /\ faults = 0
      /\ \A w \in Workers : worker[w].stage = "free"
  BY DEF Init, Free
<1>2. Working = {} /\ Notifying = {}  BY <1>1 DEF Working, Notifying
<1>3. Held = {} /\ Waiting = {} /\ ToSet(input) = {} /\ DOMAIN input = {} /\ DOMAIN events = {}
  BY <1>1, <1>2 DEF Held, Waiting, ToSet
<1>4. Order
  BY <1>2, <1>3 DEF Order, OneWorker, EventOrder, RowFirst, EventsInOrder, NotesLast, WorkOrder, RowNotAfter,
                    EventsNotAfter, HeldNotAfter, InputInOrder, InputNotAfter
<1> QED  BY <1>1, <1>4 DEF OrderInv

(* Only a failed write leaves an event unsent.                             *)
LEMMA FaultsNext ==
  ASSUME CountersInv, ReportInv, OrderInv, [Next]_vars
  PROVE  /\ overlapped' \in BOOLEAN /\ faults' \in Nat
         /\ overlapped => overlapped'
         /\ faults' = 0 => faults = 0 /\ unsent = <<>> /\ unsent' = <<>>
<1>0. overlapped \in BOOLEAN /\ faults \in Nat /\ (faults = 0 => unsent = <<>>)  BY DEF OrderInv
<1>1. CASE UNCHANGED <<overlapped, faults, unsent>>  BY <1>0, <1>1
<1>2. ASSUME NEW t \in Targets, SchedulerAdd(t) \/ SchedulerRemove(t) PROVE UNCHANGED <<overlapped, faults, unsent>>
  BY <1>2 DEF SchedulerAdd, SchedulerRemove, sender
<1>3. CASE TimePasses \/ SchedulerStep \/ UNCHANGED vars
  BY <1>1, <1>3 DEF TimePasses, SchedulerStep, TimerFires, RunIteration, BlockOnExecutor, sender, vars
<1>4. ASSUME NEW w \in Workers, TakeTask(w)
      PROVE  overlapped' \in BOOLEAN /\ (overlapped => overlapped') /\ UNCHANGED <<faults, unsent>>
  <2>1. overlapped' = (overlapped \/ Busy(checks[Head(input)].target) # {}) /\ UNCHANGED <<faults, unsent>>
    BY <1>4 DEF TakeTask, sender
  <2> QED  BY <1>0, <2>1
<1>5. ASSUME NEW w \in Workers, DoHealthCheckIteration(w) \/ NotifyHcStatusChanged(w)
      PROVE  UNCHANGED <<overlapped, faults, unsent>>
  BY <1>5 DEF DoHealthCheckIteration, NotifyHcStatusChanged, sender
<1>6. ASSUME NEW w \in Workers, Info(w)
      PROVE  UNCHANGED <<overlapped, faults>> /\ (unsent = <<>> => unsent' = <<>>)
  <2>1. UNCHANGED <<overlapped, faults>> /\ unsent' = OutdateAll(unsent, worker[w].check)
    BY <1>6 DEF Info
  <2>2. worker[w].check \in 1 .. Len(checks) /\ Len(checks) \in Nat /\ unsent \in Seq(Ev(Len(checks)))
    BY <1>6, InfoSteps DEF ReportInv
  <2>3. unsent' \in Seq(Ev(Len(checks))) /\ Len(unsent') = Len(unsent)  BY <2>1, <2>2, AllOutdated
  <2> QED  BY <2>1, <2>3
<1>7. CASE SendEvent  BY <1>1, <1>7 DEF SendEvent
<1>8. CASE SendEventFails \/ SendUnsentEventsFails
  <2>1. faults' = faults + 1 /\ overlapped' = overlapped
    BY <1>8 DEF SendEventFails, SendUnsentEventsFails
  <2> QED  BY <1>0, <2>1
<1>9. CASE SendUnsentEvents
  <2>1. unsent # <<>> /\ UNCHANGED <<overlapped, faults>>  BY <1>9 DEF SendUnsentEvents
  <2> QED  BY <1>0, <2>1
<1> QED  BY <1>0, <1>1, <1>2, <1>3, <1>4, <1>5, <1>6, <1>7, <1>8, <1>9 DEF Next, WorkerStep

(* With no fault and no event unsent the sender only sends.                *)
LEMMA NoFault ==
  ASSUME CountersInv, ReportInv, OrderInv, [Next]_vars, ~overlapped', faults' = 0
  PROVE  ~overlapped /\ faults = 0 /\ Order /\ ~SendEventFails /\ ~SendUnsentEvents /\ ~SendUnsentEventsFails
<1>1. ~overlapped /\ faults = 0 /\ unsent = <<>> /\ faults \in Nat  BY FaultsNext DEF OrderInv
<1>2. ~SendUnsentEvents /\ ~SendUnsentEventsFails  BY <1>1 DEF SendUnsentEvents, SendUnsentEventsFails
<1>3. ~SendEventFails  BY <1>1 DEF SendEventFails
<1> QED  BY <1>1, <1>2, <1>3 DEF OrderInv

LEMMA OrderNext ==
  ASSUME CountersInv, CountersInv', HeapInv, ReportInv, OrderInv, [Next]_vars
  PROVE  OrderInv'
<1> SUFFICES ASSUME ~overlapped', faults' = 0 PROVE Order'
  BY FaultsNext DEF OrderInv
<1>0. Kept(checks, checks') /\ Order /\ worker \in [Workers -> WorkerStates(Len(checks))]
  BY ChecksKept, NoFault DEF ReportInv
<1>1. ASSUME UNCHANGED <<events, db, input, worker>>, ToSet(heap') \subseteq ToSet(heap) PROVE Order'
  BY <1>0, <1>1, OrderSub
<1>2. ASSUME NEW t \in Targets, SchedulerAdd(t) PROVE Order'  BY <1>0, <1>2, OrderAdd
<1>3. ASSUME NEW t \in Targets, SchedulerRemove(t) PROVE Order'
  <2>1. ToSet(heap') \subseteq ToSet(heap)  BY <1>3, HeapRemove
  <2>2. UNCHANGED <<events, db, input, worker>>  BY <1>3 DEF SchedulerRemove, sender
  <2> QED  BY <1>1, <2>1, <2>2
<1>4. CASE TimePasses \/ TimerFires \/ BlockOnExecutor \/ UNCHANGED vars
  <2>1. UNCHANGED <<events, db, input, worker, heap>>
    BY <1>4 DEF TimePasses, TimerFires, BlockOnExecutor, sender, scheduler, vars
  <2> QED  BY <1>1, <2>1
<1>5. CASE RunIteration
  <2>1. CASE heap' = heap /\ input' = input
    <3>1. UNCHANGED <<events, db, worker>>  BY <1>5 DEF RunIteration, sender
    <3> QED  BY <1>1, <2>1, <3>1
  <2>2. CASE heap # <<>> /\ ToSet(heap') = ToSet(heap) /\ input' = Append(input, Head(heap))
    BY <1>0, <1>5, <2>2, OrderRun
  <2> QED  BY <1>5, <2>1, <2>2, HeapRun
<1>6. ASSUME NEW w \in Workers, TakeTask(w) PROVE Order'  BY <1>0, <1>6, OrderTake
<1>7. ASSUME NEW w \in Workers, DoHealthCheckIteration(w) PROVE Order'
  <2>1. worker[w].stage = "run" /\ UNCHANGED <<events, db, input, heap>>
    BY <1>7 DEF DoHealthCheckIteration, scheduler, sender
  <2>2. PICK ok \in Outcomes[checks[worker[w].check].target] :
          LET c == checks[worker[w].check]
              new == IF ok THEN OnSuccess(c) ELSE OnFailure(c)
          IN  worker' = [worker EXCEPT ![w] = IF Changed(c, new)
                                              THEN [stage |-> "changed", check |-> worker[w].check] ELSE Free]
    BY <1>7 DEF DoHealthCheckIteration
  <2>3. /\ worker'[w] = [stage |-> "changed", check |-> worker[w].check] \/ worker'[w] = Free
        /\ \A x \in Workers : x # w => worker'[x] = worker[x]
    BY <1>0, <2>2
  <2>4. worker'[w].stage = "free" \/ (worker'[w].stage = "changed" /\ worker'[w].check = worker[w].check)
    BY <2>3 DEF Free
  <2>5. \A x \in Workers : worker'[x].stage # "free" =>
                                worker[x].stage # "free" /\ worker'[x].check = worker[x].check
    BY <2>1, <2>3, <2>4
  <2>6. \A x \in Workers : worker'[x].stage = "notify" => worker'[x] = worker[x]
    BY <2>1, <2>3, <2>4
  <2> QED  BY <1>0, <2>1, <2>5, <2>6, OrderSub
<1>8. ASSUME NEW w \in Workers, Info(w) PROVE Order'  BY <1>0, <1>8, OrderInfo
<1>9. ASSUME NEW w \in Workers, NotifyHcStatusChanged(w) PROVE Order'  BY <1>0, <1>9, OrderNotify
<1>10. CASE SendEvent  BY <1>0, <1>10, OrderSend
<1> QED  BY <1>2, <1>3, <1>4, <1>5, <1>6, <1>7, <1>8, <1>9, <1>10, NoFault DEF Next, SchedulerStep, WorkerStep

-----------------------------------------------------------------------------
(* The newest report of every check.                                       *)
Accounted(c) == Reported(c) \/ db[TargetOf(c)].check > c

LEMMA KeptInit == Init => KeptInv
  BY DEF Init, KeptInv

(* A step that keeps the reports, the changes to be read and the rows.     *)
LEMMA KeptSame ==
  ASSUME NEW c, Accounted(c), Reports \subseteq Reports', UNCHANGED <<checks, db>>,
         \A x \in Workers : worker[x].stage = "changed" => worker'[x] = worker[x]
  PROVE  Accounted(c)'
<1>1. Unread(c) => Unread(c)'  BY DEF Unread
<1> QED  BY <1>1 DEF Accounted, Reported, TargetOf

(* A new check has not run, and its number is the largest.                 *)
LEMMA KeptAdd ==
  ASSUME CountersInv, ReportInv, NEW t \in Targets, SchedulerAdd(t), \A c \in DOMAIN checks : Accounted(c),
         NEW c \in DOMAIN checks'
  PROVE  Accounted(c)'
<1> DEFINE n == Len(checks)
<1>0. checks \in Seq(Check) /\ n \in Nat  BY DEF CountersInv
<1>1. checks' = Append(checks, NewHealthCheck(t)) /\ UNCHANGED <<worker, events, unsent, db>>
  BY DEF SchedulerAdd, sender
<1>2. /\ \A i \in DOMAIN checks : checks'[i] = checks[i]
      /\ DOMAIN checks' = DOMAIN checks \cup {n + 1} /\ checks'[n + 1] = NewHealthCheck(t)
  BY <1>0, <1>1
<1>3. Reports' = Reports  BY <1>1, ReportPlaces
<1>4. CASE c \in DOMAIN checks
  <2>1. checks'[c] = checks[c] /\ Accounted(c)  BY <1>2, <1>4
  <2>2. Unread(c) => Unread(c)'  BY <1>1 DEF Unread
  <2> QED  BY <1>1, <1>3, <2>1, <2>2 DEF Accounted, Reported, TargetOf
<1>5. CASE c = n + 1
  <2>1. checks'[c].firstRun  BY <1>2, <1>5 DEF NewHealthCheck
  <2> QED  BY <2>1 DEF Accounted, Reported
<1> QED  BY <1>2, <1>4, <1>5

(* The first probe of a check is reported.                                 *)
LEMMA KeptProbe ==
  ASSUME CountersInv, ReportInv, NewestReportIsCurrent, NEW w \in Workers, DoHealthCheckIteration(w),
         NEW c \in DOMAIN checks, Accounted(c)
  PROVE  Accounted(c)'
<1> DEFINE i == worker[w].check
           n == Len(checks)
<1>0. checks \in Seq(Check) /\ n \in Nat /\ worker \in [Workers -> WorkerStates(n)]
  BY DEF CountersInv, ReportInv
<1>1. worker[w].stage = "run" /\ UNCHANGED <<events, unsent, db>>  BY DEF DoHealthCheckIteration, sender
<1>2. worker[w] \in WorkerStates(n)  BY <1>0
<1>3. i \in DOMAIN checks  BY <1>0, <1>1, <1>2, WorkerShape
<1>4. PICK new \in Check :
        /\ new.target = checks[i].target
        /\ checks' = [checks EXCEPT ![i] = new]
        /\ worker' = [worker EXCEPT ![w] = IF Changed(checks[i], new) THEN [stage |-> "changed", check |-> i] ELSE Free]
  BY <1>3, ProbeSteps
<1>5. /\ \A x \in Workers : worker[x].stage = "changed" => worker'[x] = worker[x]
      /\ Changed(checks[i], new) => worker'[w] = [stage |-> "changed", check |-> i]
  BY <1>0, <1>1, <1>4
<1>6. Unread(c) => Unread(c)'  BY <1>5 DEF Unread
<1>7. Reports' = Reports  BY CurrentProbe
<1>8. checks'[c].target = checks[c].target /\ (c # i => checks'[c] = checks[c])
  BY <1>0, <1>3, <1>4
<1>9. CASE checks[c].firstRun /\ c = i
  <2>1. Changed(checks[i], new)  BY <1>9 DEF Changed
  <2>2. worker'[w].stage = "changed" /\ worker'[w].check = c  BY <1>5, <1>9, <2>1
  <2>3. Unread(c)'  BY <2>2 DEF Unread
  <2> QED  BY <2>3 DEF Accounted, Reported
<1>10. CASE checks[c].firstRun /\ c # i  BY <1>8, <1>10 DEF Accounted, Reported
<1>11. CASE ~checks[c].firstRun
  BY <1>1, <1>6, <1>7, <1>8, <1>11 DEF Accounted, Reported, TargetOf
<1> QED  BY <1>9, <1>10, <1>11

(* The goroutine that reads a check back makes its newest report.          *)
LEMMA KeptInfo ==
  ASSUME CountersInv, HeapInv, ReportInv, NEW w \in Workers, Info(w), NEW c \in DOMAIN checks, Accounted(c)
  PROVE  Accounted(c)'
<1> DEFINE i == worker[w].check
           n == Len(checks)
<1>1. /\ i \in 1 .. n /\ n \in Nat /\ UNCHANGED checks
      /\ \A x \in Workers \ {w} : worker[x].stage # "notify" => worker'[x] = worker[x]
      /\ db' = [t \in Targets |-> Outdate(db[t], i)]
  BY InfoSteps
<1>2. \A e \in Ev(n) \cup {NoStatus} : Outdate(e, i).check = e.check /\ Outdate(e, i).fresh = (e.fresh /\ e.check # i)
  BY <1>1, Outdated
<1>3. CASE c = i
  <2>1. InfoEvent(w) \in Reports' /\ InfoEvent(w).check = i /\ InfoEvent(w).fresh
    BY InfoReports DEF InfoEvent
  <2> QED  BY <1>3, <2>1 DEF Accounted, Reported
<1>4. CASE c # i
  <2>1. Unread(c) => Unread(c)'  BY <1>1, <1>4 DEF Unread
  <2>2. ASSUME NEW e \in Reports, e.check = c, e.fresh PROVE \E f \in Reports' : f.check = c /\ f.fresh
    <3>1. e \in Ev(n) \cup {NoStatus}  BY ReportsTyped
    <3>2. Outdate(e, i) \in Reports'  BY InfoReports
    <3> QED  BY <1>2, <1>4, <2>2, <3>1, <3>2
  <2>3. DOMAIN checks = 1 .. n  BY DEF CountersInv
  <2>4. TargetOf(c) \in Targets /\ db[TargetOf(c)] \in Ev(n) \cup {NoStatus}  BY <2>3, Ranges
  <2>5. db'[TargetOf(c)].check = db[TargetOf(c)].check  BY <1>1, <1>2, <2>4
  <2> QED  BY <1>1, <2>1, <2>2, <2>5 DEF Accounted, Reported, TargetOf
<1> QED  BY <1>3, <1>4

(* The row an event replaces is not the newest report of its check, unless *)
(* the event is of a later check.                                          *)
LEMMA KeptSend ==
  ASSUME CountersInv, HeapInv, ReportInv, Order, SendEvent, NEW c \in DOMAIN checks, Accounted(c)
  PROVE  Accounted(c)'
<1> DEFINE n == Len(checks)
           h == Head(events)
           t == TargetOf(h.check)
<1>0. events \in Seq(Ev(n)) /\ DOMAIN checks = 1 .. n  BY DEF ReportInv, CountersInv
<1>1. events # <<>> /\ events' = Tail(events) /\ UNCHANGED <<checks, worker, unsent>>
  BY DEF SendEvent
<1>2. h = events[1] /\ 1 \in DOMAIN events /\ ToSet(events) = {h} \cup ToSet(events')
  BY <1>0, <1>1, Tailed
<1>3. \A u \in Targets : db'[u] = IF u = t THEN h ELSE db[u]  BY SentRow
<1>4. /\ n \in Nat /\ h.check \in 1 .. n /\ t \in Targets /\ TargetOf(c) \in Targets
      /\ \A u \in Targets : db[u] \in Ev(n) \cup {NoStatus} /\ db[u].check \in 0 .. n
  BY <1>0, <1>2, Ranges
<1>5. Precedes(db[t], h)  BY <1>2 DEF Order, EventOrder, RowFirst
<1>6. \A u \in Targets : db[u].check > 0 => TargetOf(db[u].check) = u  BY DEF ReportInv
<1> HIDE DEF h, t, n
<1>7. Unread(c) => Unread(c)'  BY <1>1 DEF Unread
<1>8. db[TargetOf(c)].check > c => db'[TargetOf(c)].check > c
  <2>1. CASE TargetOf(c) = t  BY <1>0, <1>3, <1>4, <1>5, <2>1 DEF Precedes
  <2>2. CASE TargetOf(c) # t  BY <1>3, <1>4, <2>2
  <2> QED  BY <2>1, <2>2
<1>9. ASSUME NEW e \in Reports, e.check = c, e.fresh
      PROVE  e \in Reports' \/ db'[TargetOf(c)].check > c
  <2>1. CASE e \in ToSet(events) \/ e \in ToSet(unsent) \/ e \in Notes(worker)
    <3>1. h \in Rows(db')
      <4>1. db'[t] = h  BY <1>3, <1>4
      <4> QED  BY <1>4, <4>1 DEF Rows
    <3> QED  BY <1>1, <1>2, <2>1, <3>1, ReportPlaces
  <2>2. CASE e \in Rows(db)
    <3>1. PICK u \in Targets : e = db[u]  BY <2>2 DEF Rows
    <3>2. CASE u # t
      <4>1. db'[u] = e  BY <1>3, <3>1, <3>2
      <4> QED  BY <4>1, ReportPlaces DEF Rows
    <3>3. CASE u = t
      <4>1. c \in 1 .. n /\ c > 0  BY <1>0, <1>4 DEF n
      <4>2. TargetOf(c) = t  BY <1>6, <1>9, <3>1, <3>3, <4>1
      <4>3. c < h.check  BY <1>5, <1>9, <3>1, <3>3 DEF Precedes
      <4> QED  BY <1>3, <1>4, <4>1, <4>2, <4>3
    <3> QED  BY <3>2, <3>3
  <2> QED  BY <2>1, <2>2, ReportPlaces
<1> QED  BY <1>1, <1>7, <1>8, <1>9 DEF Accounted, Reported, TargetOf

LEMMA KeptNext ==
  ASSUME CountersInv, CountersInv', HeapInv, ReportInv, NewestReportIsCurrent, OrderInv, KeptInv, [Next]_vars
  PROVE  KeptInv'
<1> SUFFICES ASSUME ~overlapped', faults' = 0, NEW c \in DOMAIN checks' PROVE Accounted(c)'
  BY DEF KeptInv, Accounted
<1>0. Order /\ \A d \in DOMAIN checks : Accounted(d)  BY NoFault DEF KeptInv, Accounted
<1>1. worker \in [Workers -> WorkerStates(Len(checks))]  BY DEF ReportInv
<1>2. ASSUME NEW t \in Targets, SchedulerAdd(t) PROVE Accounted(c)'  BY <1>0, <1>2, KeptAdd
<1>3. ASSUME UNCHANGED <<checks, worker, events, unsent, db>> PROVE Accounted(c)'
  <2>1. Reports' = Reports  BY <1>3, ReportPlaces
  <2> QED  BY <1>0, <1>3, <2>1, KeptSame
<1>4. ASSUME NEW t \in Targets, SchedulerRemove(t) PROVE Accounted(c)'
  BY <1>3, <1>4 DEF SchedulerRemove, sender
<1>5. CASE TimePasses \/ SchedulerStep \/ UNCHANGED vars
  BY <1>3, <1>5 DEF TimePasses, SchedulerStep, TimerFires, RunIteration, BlockOnExecutor, sender, vars
<1>6. ASSUME NEW w \in Workers, TakeTask(w) PROVE Accounted(c)'
  <2> DEFINE s == [stage |-> "run", check |-> Head(input)]
  <2>1. worker[w].stage = "free" /\ worker' = [worker EXCEPT ![w] = s] /\ UNCHANGED <<checks, events, unsent, db>>
    BY <1>6 DEF TakeTask, sender
  <2>2. s.stage = "run"  OBVIOUS
  <2> HIDE DEF s
  <2>3. Notes(worker') = Notes(worker)  BY <1>1, <2>1, <2>2, NotesKept
  <2>4. Reports' = Reports  BY <2>1, <2>3, ReportPlaces
  <2>5. \A x \in Workers : worker[x].stage = "changed" => worker'[x] = worker[x]  BY <1>1, <2>1
  <2> QED  BY <1>0, <2>1, <2>4, <2>5, KeptSame
<1>7. ASSUME NEW w \in Workers, DoHealthCheckIteration(w) PROVE Accounted(c)'
  <2>1. c \in DOMAIN checks
    <3>1. checks \in Seq(Check) /\ \E v : checks' = [checks EXCEPT ![worker[w].check] = v]
      BY <1>7 DEF DoHealthCheckIteration, CountersInv
    <3> QED  BY <3>1
  <2> QED  BY <1>0, <1>7, <2>1, KeptProbe
<1>8. ASSUME NEW w \in Workers, Info(w) PROVE Accounted(c)'
  <2>1. checks' = checks  BY <1>8 DEF Info
  <2> QED  BY <1>0, <1>8, <2>1, KeptInfo
<1>9. ASSUME NEW w \in Workers, NotifyHcStatusChanged(w) PROVE Accounted(c)'
  <2>1. Reports' = Reports /\ checks' = checks  BY <1>9, CurrentNotify
  <2>2. db' = db /\ \A x \in Workers : worker[x].stage = "changed" => worker'[x] = worker[x]
    BY <1>1, <1>9 DEF NotifyHcStatusChanged, sender
  <2> QED  BY <1>0, <2>1, <2>2, KeptSame
<1>10. CASE SendEvent
  <2>1. checks' = checks  BY <1>10 DEF SendEvent
  <2> QED  BY <1>0, <1>10, <2>1, KeptSend
<1> QED  BY <1>2, <1>4, <1>5, <1>6, <1>7, <1>8, <1>9, <1>10, NoFault DEF Next, WorkerStep

-----------------------------------------------------------------------------
(* All of it together.                                                     *)
PipelineInv ==
    CountersInv /\ BoundsInv /\ HeapInv /\ ReportInv /\ NewestReportIsCurrent /\ OrderInv /\ KeptInv

LEMMA PipelineInit == Init => PipelineInv
<1> SUFFICES ASSUME Init PROVE PipelineInv
  OBVIOUS
<1>1. BoundsInv  BY DEF Init, BoundsInv
<1>2. NewestReportIsCurrent
  <2>1. \A e \in Reports : e = NoStatus
    <3>1. /\ ToSet(events) = {} /\ ToSet(unsent) = {} /\ \A w \in Workers : worker[w].stage = "free"
          /\ \A t \in Targets : db[t] = NoStatus
      BY DEF Init, Free, ToSet
    <3>2. Notes(worker) = {}  BY <3>1 DEF Notes
    <3>3. \A e \in Rows(db) : e = NoStatus  BY <3>1 DEF Rows
    <3> QED  BY <3>1, <3>2, <3>3, ReportPlaces
  <2>2. ~NoStatus.fresh  BY DEF NoStatus
  <2> QED  BY <2>1, <2>2 DEF NewestReportIsCurrent
<1> QED  BY <1>1, <1>2, CountersInit, HeapInit, ReportInit, OrderInit, KeptInit DEF PipelineInv

LEMMA PipelineNext == PipelineInv /\ [Next]_vars => PipelineInv'
<1> SUFFICES ASSUME PipelineInv, [Next]_vars PROVE PipelineInv'
  OBVIOUS
<1>0. CountersInv /\ BoundsInv /\ HeapInv /\ ReportInv /\ NewestReportIsCurrent /\ OrderInv /\ KeptInv
  BY DEF PipelineInv
<1>1. CountersInv'  BY <1>0, NextCounts
<1>2. BoundsInv'  BY <1>0, ChecksKept
<1>3. HeapInv' /\ ReportInv'  BY <1>0, <1>1, HeapNext, ReportNext
<1>4. NewestReportIsCurrent'  BY <1>0, CurrentNext
<1>5. OrderInv' /\ KeptInv'  BY <1>0, <1>1, OrderNext, KeptNext
<1> QED  BY <1>1, <1>2, <1>3, <1>4, <1>5 DEF PipelineInv

LEMMA AlwaysPipeline == Spec => []PipelineInv
  BY PipelineInit, PipelineNext, PTL DEF Spec

(* The counters stay below the wrap, the heap never holds two checks of    *)
(* one target, the channels keep their capacity and every report names a   *)
(* check that was made (heap_scheduller.go, executor.go, chan_notifyer.go).*)
THEOREM PipelineTypes == Spec => []TypeOK
<1>1. PipelineInv => TypeOK
  <2> SUFFICES ASSUME PipelineInv PROVE TypeOK
    OBVIOUS
  <2> DEFINE n == Len(checks)
  <2>0. CountersInv /\ BoundsInv /\ HeapInv /\ ReportInv  BY DEF PipelineInv
  <2>1. \A c \in DOMAIN checks : /\ checks[c].target \in Targets
                                 /\ checks[c].curSuccess \in 0 .. Modulus - 1
                                 /\ checks[c].curFailures \in 0 .. Modulus - 1
    <3> SUFFICES ASSUME NEW c \in DOMAIN checks
                 PROVE  /\ checks[c].target \in Targets
                        /\ checks[c].curSuccess \in 0 .. Modulus - 1
                        /\ checks[c].curFailures \in 0 .. Modulus - 1
      OBVIOUS
    <3>1. checks[c] \in Check  BY <2>0 DEF CountersInv
    <3>2. /\ checks[c].target \in Targets /\ checks[c].curSuccess \in Nat /\ checks[c].curFailures \in Nat
      BY <3>1 DEF Check
    <3>3. checks[c].curSuccess < Modulus /\ checks[c].curFailures < Modulus  BY <2>0 DEF BoundsInv
    <3>4. \A a \in Nat : a < Modulus => a \in 0 .. Modulus - 1  BY Thresholds
    <3> QED  BY <3>2, <3>3, <3>4
  <2>2. \A i, j \in DOMAIN heap : i # j => checks[heap[i]].target # checks[heap[j]].target
    BY <2>0 DEF HeapInv, Apart
  <2>3. due \in 0 .. Len(heap) /\ armed \in BOOLEAN /\ iteration \in {"none", "fired", "blocked"}
    <3>1. Len(heap) \in Nat  BY <2>0 DEF HeapInv
    <3> QED  BY <2>0, <3>1 DEF HeapInv
  <2>4. Len(input) <= ExecutorBuffer /\ Len(events) <= NotifierBuffer  BY <2>0 DEF HeapInv, ReportInv
  <2>5. Reports \subseteq Event
    <3>1. Reports \subseteq Ev(n) \cup {NoStatus}  BY <2>0, ReportsTyped
    <3>2. n \in Nat /\ n <= MaxAdds /\ MaxAdds \in Nat
      BY <2>0, CheckPipelineAssumption DEF CountersInv, HeapInv
    <3> HIDE DEF n
    <3>3. 1 .. n \subseteq 0 .. MaxAdds /\ 0 \in 0 .. MaxAdds  BY <3>2
    <3>4. Ev(n) \subseteq Event  BY <3>3 DEF Ev, Event
    <3>5. NoStatus \in Event  BY <3>3 DEF NoStatus, Event
    <3> QED  BY <3>1, <3>4, <3>5
  <2> QED  BY <2>1, <2>2, <2>3, <2>4, <2>5 DEF TypeOK
<1> QED  BY <1>1, AlwaysPipeline, PTL

(* The newest report of a check says what the check found, although its    *)
(* status is read back after the lock was given up (executor.go:42-66).    *)
THEOREM ReportIsCurrent == Spec => []NewestReportIsCurrent
<1>1. PipelineInv => NewestReportIsCurrent  BY DEF PipelineInv
<1> QED  BY <1>1, AlwaysPipeline, PTL

(* As long as no two goroutines had checks of one target at a time and no  *)
(* write failed, the newest report of every check that ran is on its way   *)
(* or in the table, or the row is of a later check (sender.go).            *)
THEOREM NewestKept == Spec => []NewestReportKept
<1>1. PipelineInv => NewestReportKept
  BY DEF PipelineInv, KeptInv, NewestReportKept, TargetOf
<1> QED  BY <1>1, AlwaysPipeline, PTL
=============================================================================
