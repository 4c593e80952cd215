----------------------------- MODULE DelayQueue -----------------------------
(***************************************************************************)
(* The reconciler's delayed events (control-plane/internal/reconciler/     *)
(* delay.go): a list sorted by time and one timer for its front.           *)
(*                                                                         *)
(* Time is a counter that only the clock advances.  The timer has the      *)
(* semantics of Go 1.23 and later (go.mod says 1.24): a reset forgets an   *)
(* expiry that was not received.                                           *)
(***************************************************************************)
EXTENDS Integers, Sequences

CONSTANTS
  DeathDelay,    \* nodeDeathEventDelay
  RetryDelay,    \* the delay of the RunReconcile after a failed call
  MaxDelayed,    \* bound: events that are delayed
  MaxNow         \* bound: time

ASSUME DelaysAssumption ==
  /\ DeathDelay \in Nat
  /\ RetryDelay \in Nat
  /\ MaxDelayed \in Nat
  /\ MaxNow \in Nat

VARIABLES
  now,
  delayedEvents,      \* the list
  delayEventTimer,    \* when the timer fires, Stopped when it has fired
  pc,                 \* "handling" between the removal of the front and the reset
  delayed             \* how many events were delayed; the identity of the next one

vars == <<now, delayedEvents, delayEventTimer, pc, delayed>>

Stopped == -1
Kinds == {"dead", "run"}
Entry == [kind : Kinds, id : Nat, applyAt : Nat]

\* Init delays a first RunReconcile by nothing.
Init ==
  /\ now = 0
  /\ delayedEvents = <<[kind |-> "run", id |-> 0, applyAt |-> 0]>>
  /\ delayEventTimer = 0
  /\ pc = "idle"
  /\ delayed = 1

Tick ==
  /\ now < MaxNow
  /\ now' = now + 1
  /\ UNCHANGED <<delayedEvents, delayEventTimer, pc, delayed>>

\* Mutant of Position: the new event is put before the ones of the same time.
PositionEager(applyAt) ==
  LET notBefore == {i \in DOMAIN delayedEvents : delayedEvents[i].applyAt >= applyAt}
  IN IF notBefore = {} THEN Len(delayedEvents) + 1
     ELSE CHOOSE i \in notBefore : \A j \in notBefore : i <= j

\* Mutant of Position: the front of the list is not compared.
PositionBehindFront(applyAt) ==
  LET later == {i \in DOMAIN delayedEvents : i > 1 /\ delayedEvents[i].applyAt > applyAt}
  IN IF later = {} THEN Len(delayedEvents) + 1
     ELSE CHOOSE i \in later : \A j \in later : i <= j

\* Before the first event that is later than the new one.
Position(applyAt) ==
  LET later == {i \in DOMAIN delayedEvents : delayedEvents[i].applyAt > applyAt}
  IN IF later = {} THEN Len(delayedEvents) + 1
     ELSE CHOOSE i \in later : \A j \in later : i <= j

Inserted(p, entry) ==
  [i \in 1 .. Len(delayedEvents) + 1 |->
     IF i < p THEN delayedEvents[i] ELSE IF i = p THEN entry ELSE delayedEvents[i - 1]]

delayEvent(kind, delay) ==
  LET entry == [kind |-> kind, id |-> delayed, applyAt |-> now + delay]
      p == Position(entry.applyAt)
  IN /\ delayed < MaxDelayed
     /\ entry.applyAt <= MaxNow
     /\ delayedEvents' = Inserted(p, entry)
     /\ delayEventTimer' = IF p = 1 THEN entry.applyAt ELSE delayEventTimer
     /\ delayed' = delayed + 1
     /\ UNCHANGED <<now, pc>>

\* A death arrives on the event channel.
DelayDeath == pc = "idle" /\ delayEvent("dead", DeathDelay)

\* A call of reconcile() failed, in the loop or while a delayed event is handled.
DelayRun == delayEvent("run", RetryDelay)

\* The timer's channel is received from; an empty list is left alone.
TimerFires ==
  /\ pc = "idle"
  /\ delayEventTimer # Stopped
  /\ delayEventTimer <= now
  /\ delayEventTimer' = Stopped
  /\ IF delayedEvents = << >>
     THEN UNCHANGED <<delayedEvents, pc>>
     ELSE delayedEvents' = Tail(delayedEvents) /\ pc' = "handling"
  /\ UNCHANGED <<now, delayed>>

\* Mutant of ResetTimer: the timer is only reset when the list becomes non-empty.
ResetTimerNot ==
  /\ pc = "handling"
  /\ pc' = "idle"
  /\ UNCHANGED <<now, delayedEvents, delayEventTimer, delayed>>

\* The end of handleDelayedEvent.
ResetTimer ==
  /\ pc = "handling"
  /\ pc' = "idle"
  /\ delayEventTimer' = IF delayedEvents = << >> THEN delayEventTimer
                        ELSE delayedEvents[1].applyAt
  /\ UNCHANGED <<now, delayedEvents, delayed>>

Next == Tick \/ DelayDeath \/ DelayRun \/ TimerFires \/ ResetTimer

\* Time passes, an expired timer is received from and a call returns.
Spec == Init /\ [][Next]_vars
FairSpec == Spec /\ WF_vars(Tick) /\ WF_vars(TimerFires) /\ WF_vars(ResetTimer)

----------------------------------------------------------------------------

\* An event is handled when its time has come and no event of an earlier time
\* waits: an expiry of the timer that was meant for another event releases none.
HandledWhenDue ==
  [][pc = "idle" /\ pc' = "handling" =>
       /\ delayedEvents[1].applyAt <= now
       /\ \A i \in DOMAIN delayedEvents :
            delayedEvents[1].applyAt <= delayedEvents[i].applyAt]_vars

\* No wake-up is lost: whenever the loop waits, the timer is armed for the event
\* that is due first, although both delayEvent and handleDelayedEvent set it and
\* an expiry stops it; with nothing delayed it is not armed.
TimerForFront ==
  /\ delayedEvents = << >> => delayEventTimer = Stopped
  /\ pc = "idle" /\ delayedEvents # << >> =>
       /\ delayEventTimer = delayedEvents[1].applyAt
       /\ \A i \in DOMAIN delayedEvents : delayEventTimer <= delayedEvents[i].applyAt

\* Every delayed event is handled, whatever is delayed before it is due.
EveryEventHandled == <>[](delayedEvents = << >>)

\* The list implements the two queues that module Reconciler has instead: the
\* events of each kind, in the order of the list.
IdsOf(kind, list) ==
  LET upTo[i \in 0 .. Len(list)] ==
        IF i = 0 THEN << >>
        ELSE IF list[i].kind = kind THEN Append(upTo[i - 1], list[i].id) ELSE upTo[i - 1]
  IN upTo[Len(list)]

Abstract == INSTANCE DelayedEvents WITH
  Deaths <- 0 .. MaxDelayed,
  delayedDeaths <- IdsOf("dead", delayedEvents),
  delayedRuns <- Len(IdsOf("run", delayedEvents))

\* Deaths are handled in the order in which they were delayed and every event is
\* handled once, whatever RunReconcile events are delayed in between.
ImplementsDelayedEvents == Abstract!Spec
=============================================================================
