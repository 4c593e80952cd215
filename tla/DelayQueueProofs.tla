-------------------------- MODULE DelayQueueProofs --------------------------
(***************************************************************************)
(* Proofs about DelayQueue, for every choice of the delays: the list is    *)
(* sorted and the timer is armed for its front, and the list implements    *)
(* module DelayedEvents.                                                   *)
(***************************************************************************)
EXTENDS DelayQueue, WellFoundedInduction, TLAPS

TypeOK ==
  /\ now \in Nat
  /\ delayedEvents \in Seq(Entry)
  /\ delayEventTimer \in Nat \cup {Stopped}
  /\ pc \in {"idle", "handling"}
  /\ delayed \in Nat

Sorted ==
  \A i, j \in DOMAIN delayedEvents :
    i <= j => delayedEvents[i].applyAt <= delayedEvents[j].applyAt

QueueInv == TypeOK /\ Sorted /\ TimerForFront

LEMMA EntryType ==
  ASSUME NEW s \in Seq(Entry), NEW i \in 1 .. Len(s)
  PROVE  s[i] \in Entry /\ s[i].applyAt \in Nat /\ s[i].id \in Nat /\ s[i].kind \in Kinds
  <1>1. s[i] \in Entry
    OBVIOUS
  <1> QED
    BY <1>1 DEF Entry

LEMMA QueueInit == Init => QueueInv
  <1> SUFFICES ASSUME Init PROVE QueueInv
    OBVIOUS
  <1>1. [kind |-> "run", id |-> 0, applyAt |-> 0] \in Entry
    BY DEF Entry, Kinds
  <1>2. delayedEvents \in Seq(Entry) /\ Len(delayedEvents) = 1 /\ delayedEvents[1].applyAt = 0
    BY <1>1 DEF Init
  <1> QED
    BY <1>2 DEF Init, QueueInv, TypeOK, Sorted, TimerForFront

\* A set of natural numbers has a least element.
LEMMA LeastNatural ==
  ASSUME NEW T \in SUBSET Nat, T # {}
  PROVE  \E x \in T : \A y \in T : x <= y
  <1> DEFINE R == {ss \in Nat \X Nat : ss[1] < ss[2]}
  <1>1. IsWellFoundedOn(R, Nat)
    BY NatLessThanWellFounded DEF OpToRel
  <1>2. PICK x \in T : \A y \in T : ~(<<y, x>> \in R)
    <2> HIDE DEF R
    <2> QED
      BY <1>1, WFMin
  <1>3. \A y \in T : y \in Nat /\ x \in Nat /\ (<<y, x>> \in R <=> y < x)
    BY <1>2
  <1>4. \A y \in T : ~(y < x)
    <2> HIDE DEF R
    <2> QED
      BY <1>2, <1>3, Zenon
  <1>5. \A y \in T : x <= y
    BY <1>3, <1>4
  <1> QED
    BY <1>5

\* Position splits the list into what is not later and what is later.
LEMMA PositionSplits ==
  ASSUME QueueInv, NEW t \in Nat
  PROVE  /\ Position(t) \in 1 .. Len(delayedEvents) + 1
         /\ \A i \in DOMAIN delayedEvents :
              /\ i < Position(t) => delayedEvents[i].applyAt <= t
              /\ i >= Position(t) => delayedEvents[i].applyAt > t
  <1> DEFINE later == {i \in DOMAIN delayedEvents : delayedEvents[i].applyAt > t}
             n == Len(delayedEvents)
  <1>1. n \in Nat /\ DOMAIN delayedEvents = 1 .. n
    BY DEF QueueInv, TypeOK
  <1>2. \A i \in 1 .. n : delayedEvents[i].applyAt \in Nat
    BY <1>1, EntryType DEF QueueInv, TypeOK
  <1>3. CASE later = {}
    <2>1. Position(t) = n + 1
      BY <1>3 DEF Position
    <2> QED
      BY <1>1, <1>2, <1>3, <2>1
  <1>4. CASE later # {}
    <2>1. \E i \in later : \A j \in later : i <= j
      <3>1. later \in SUBSET Nat
        BY <1>1
      <3> QED
        BY <1>4, <3>1, LeastNatural
    <2>2. Position(t) = CHOOSE i \in later : \A j \in later : i <= j
      BY <1>4 DEF Position
    <2>3. Position(t) \in later /\ \A j \in later : Position(t) <= j
      BY <2>1, <2>2
    <2>4. \A i \in 1 .. n : i >= Position(t) => delayedEvents[i].applyAt > t
      BY <1>1, <1>2, <2>3 DEF QueueInv, Sorted
    <2> HIDE DEF later
    <2>5. \A i \in 1 .. n : i < Position(t) => i \notin later
      BY <1>1, <2>3 DEF later
    <2> QED
      BY <1>1, <1>2, <2>3, <2>4, <2>5 DEF later
  <1> QED
    BY <1>3, <1>4

LEMMA QueueDelayEvent ==
  ASSUME QueueInv, NEW kind \in Kinds, NEW delay \in Nat, delayEvent(kind, delay)
  PROVE  QueueInv'
  <1> DEFINE t == now + delay
             entry == [kind |-> kind, id |-> delayed, applyAt |-> t]
             p == Position(t)
             n == Len(delayedEvents)
  <1>1. t \in Nat /\ entry \in Entry /\ entry.applyAt = t
    BY DEF QueueInv, TypeOK, Entry
  <1>2. n \in Nat /\ DOMAIN delayedEvents = 1 .. n
    BY DEF QueueInv, TypeOK
  <1>3. \A i \in 1 .. n : delayedEvents[i] \in Entry /\ delayedEvents[i].applyAt \in Nat
    BY <1>2, EntryType DEF QueueInv, TypeOK
  <1>4. /\ p \in 1 .. n + 1
        /\ \A i \in 1 .. n : /\ i < p => delayedEvents[i].applyAt <= t
                             /\ i >= p => delayedEvents[i].applyAt > t
    BY <1>1, <1>2, PositionSplits
  <1>5. /\ delayedEvents' = [i \in 1 .. n + 1 |->
             IF i < p THEN delayedEvents[i] ELSE IF i = p THEN entry ELSE delayedEvents[i - 1]]
        /\ delayEventTimer' = IF p = 1 THEN t ELSE delayEventTimer
        /\ delayed' = delayed + 1
        /\ UNCHANGED <<now, pc>>
    BY <1>1 DEF delayEvent, Inserted
  <1> HIDE DEF p, n, entry, t
  <1>6. /\ DOMAIN delayedEvents' = 1 .. n + 1
        /\ \A i \in 1 .. n + 1 :
             /\ i < p => i \in 1 .. n /\ delayedEvents'[i] = delayedEvents[i]
             /\ i = p => delayedEvents'[i] = entry
             /\ i > p => i - 1 \in 1 .. n /\ i - 1 >= p /\ delayedEvents'[i] = delayedEvents[i - 1]
    BY <1>2, <1>4, <1>5
  <1>7. \A i \in 1 .. n + 1 : delayedEvents'[i] \in Entry
    BY <1>1, <1>2, <1>3, <1>4, <1>6
  <1>8. delayedEvents' \in Seq(Entry)
    BY <1>2, <1>5, <1>7
  <1>9. TypeOK'
    BY <1>1, <1>5, <1>8 DEF QueueInv, TypeOK
  <1>10. ASSUME NEW i \in 1 .. n + 1, NEW j \in 1 .. n + 1, i <= j
         PROVE  delayedEvents'[i].applyAt <= delayedEvents'[j].applyAt
    <2>1. \A k, l \in 1 .. n : k <= l => delayedEvents[k].applyAt <= delayedEvents[l].applyAt
      BY <1>2 DEF QueueInv, Sorted
    <2>2. CASE i < p /\ j < p
      BY <1>6, <1>10, <2>1, <2>2
    <2>3. CASE i < p /\ j = p
      BY <1>1, <1>4, <1>6, <2>3
    <2>4. CASE i < p /\ j > p
      <3>1. /\ i \in 1 .. n /\ delayedEvents'[i] = delayedEvents[i]
            /\ j - 1 \in 1 .. n /\ delayedEvents'[j] = delayedEvents[j - 1] /\ j - 1 >= p
        BY <1>6, <2>4
      <3>2. delayedEvents[i].applyAt <= t /\ delayedEvents[j - 1].applyAt > t
        BY <1>4, <2>4, <3>1
      <3> QED
        BY <1>1, <1>3, <3>1, <3>2
    <2>5. CASE i = p /\ j = p
      BY <1>1, <1>6, <2>5
    <2>6. CASE i = p /\ j > p
      <3>1. j - 1 \in 1 .. n /\ delayedEvents'[j] = delayedEvents[j - 1] /\ j - 1 >= p
        BY <1>6, <2>6
      <3> QED
        BY <1>1, <1>3, <1>4, <1>6, <2>6, <3>1
    <2>7. CASE i > p /\ j > p
      BY <1>6, <1>10, <2>1, <2>7
    <2> QED
      BY <1>2, <1>4, <1>10, <2>2, <2>3, <2>4, <2>5, <2>6, <2>7
  <1>11. Sorted'
    BY <1>6, <1>10 DEF Sorted
  <1>12. TimerForFront'
    <2>1. delayedEvents' # << >>
      BY <1>2, <1>6
    <2>4. 1 \in DOMAIN delayedEvents' /\ \A i \in DOMAIN delayedEvents' : 1 <= i
      BY <1>2, <1>6
    <2>2. CASE p = 1
      <3>1. delayedEvents'[1] = entry /\ delayEventTimer' = t
        BY <1>2, <1>5, <1>6, <2>2
      <3> QED
        BY <1>1, <1>11, <2>1, <2>4, <3>1 DEF Sorted, TimerForFront
    <2>3. CASE p # 1
      <3>1. 1 < p /\ 1 \in 1 .. n /\ delayedEvents'[1] = delayedEvents[1]
        BY <1>2, <1>4, <1>6, <2>3
      <3>2. delayedEvents # << >>
        BY <1>2, <3>1
      <3> QED
        BY <1>5, <1>11, <2>1, <2>3, <2>4, <3>1, <3>2 DEF QueueInv, Sorted, TimerForFront
    <2> QED
      BY <2>2, <2>3
  <1> QED
    BY <1>9, <1>11, <1>12 DEF QueueInv

LEMMA QueueTimerFires ==
  ASSUME QueueInv, TimerFires
  PROVE  QueueInv'
  <1>1. delayedEvents # << >>
    BY DEF QueueInv, TimerForFront, TimerFires
  <1>2. delayedEvents' = Tail(delayedEvents) /\ pc' = "handling"
    BY <1>1 DEF TimerFires
  <1>3. /\ delayedEvents' \in Seq(Entry)
        /\ \A i \in DOMAIN delayedEvents' :
             i \in Nat /\ i + 1 \in DOMAIN delayedEvents /\ delayedEvents'[i] = delayedEvents[i + 1]
    BY <1>1, <1>2 DEF QueueInv, TypeOK
  <1>4. TypeOK'
    BY <1>2, <1>3 DEF QueueInv, TypeOK, TimerFires
  <1>5. Sorted'
    BY <1>3 DEF QueueInv, Sorted
  <1> QED
    BY <1>2, <1>4, <1>5 DEF QueueInv, TimerForFront, TimerFires

LEMMA QueueResetTimer ==
  ASSUME QueueInv, ResetTimer
  PROVE  QueueInv'
  <1>1. delayedEvents # << >> => delayedEvents[1].applyAt \in Nat
    <2>1. delayedEvents # << >> => 1 \in 1 .. Len(delayedEvents)
      BY DEF QueueInv, TypeOK
    <2> QED
      BY <2>1, EntryType DEF QueueInv, TypeOK
  <1>2. TypeOK'
    BY <1>1 DEF QueueInv, TypeOK, ResetTimer
  <1> QED
    BY <1>2 DEF QueueInv, Sorted, TimerForFront, ResetTimer

LEMMA QueueNext == QueueInv /\ [Next]_vars => QueueInv'
  <1> SUFFICES ASSUME QueueInv, [Next]_vars PROVE QueueInv'
    OBVIOUS
  <1>1. CASE Tick \/ UNCHANGED vars
    BY <1>1 DEF Tick, vars, QueueInv, TypeOK, Sorted, TimerForFront
  <1>2. CASE DelayDeath
    BY <1>2, QueueDelayEvent, DelaysAssumption DEF DelayDeath, Kinds
  <1>3. CASE DelayRun
    BY <1>3, QueueDelayEvent, DelaysAssumption DEF DelayRun, Kinds
  <1> QED
    BY <1>1, <1>2, <1>3, QueueTimerFires, QueueResetTimer DEF Next

LEMMA QueueAlways == Spec => []QueueInv
  BY QueueInit, QueueNext, PTL DEF Spec

\* Whatever the two delays are, the loop never waits with the timer stopped or
\* armed for another event than the one that is due first.
THEOREM NoWakeUpLost == Spec => []TimerForFront
  <1>1. QueueInv => TimerForFront
    BY DEF QueueInv
  <1> QED
    BY <1>1, QueueAlways, PTL

\* Whatever the two delays are, the timer never releases an event before its time
\* or before an event of an earlier time.
THEOREM AlwaysHandledWhenDue == Spec => HandledWhenDue
  <1>1. QueueInv /\ [Next]_vars
          => [pc = "idle" /\ pc' = "handling" =>
                /\ delayedEvents[1].applyAt <= now
                /\ \A i \in DOMAIN delayedEvents :
                     delayedEvents[1].applyAt <= delayedEvents[i].applyAt]_vars
    <2> SUFFICES ASSUME QueueInv, [Next]_vars, pc = "idle", pc' = "handling"
                 PROVE  /\ delayedEvents[1].applyAt <= now
                        /\ \A i \in DOMAIN delayedEvents :
                             delayedEvents[1].applyAt <= delayedEvents[i].applyAt
      OBVIOUS
    <2>1. TimerFires /\ delayedEvents # << >>
      BY DEF Next, Tick, DelayDeath, DelayRun, delayEvent, ResetTimer, TimerFires, vars
    <2>2. delayedEvents[1].applyAt <= now
      BY <2>1 DEF TimerFires, QueueInv, TimerForFront
    <2>3. 1 \in DOMAIN delayedEvents /\ \A i \in DOMAIN delayedEvents : 1 <= i
      BY <2>1 DEF QueueInv, TypeOK
    <2> QED
      BY <2>2, <2>3 DEF QueueInv, Sorted
  <1> QED
    BY <1>1, QueueAlways, PTL DEF Spec, HandledWhenDue

----------------------------------------------------------------------------
\* The refinement: what the loop that collects the events of one kind yields.

\* Induction over the natural numbers, for a set.
LEMMA SetInduction ==
  ASSUME NEW T \in SUBSET Nat, 0 \in T, \A n \in T : n + 1 \in T
  PROVE  T = Nat
  <1> SUFFICES ASSUME Nat \ T # {} PROVE FALSE
    OBVIOUS
  <1>1. PICK x \in Nat \ T : \A y \in Nat \ T : x <= y
    BY LeastNatural
  <1>2. x \in Nat /\ x \notin T /\ x # 0
    OBVIOUS
  <1>3. x - 1 \in Nat /\ (x - 1) + 1 = x /\ ~(x <= x - 1)
    BY <1>2
  <1>4. x - 1 \in T
    BY <1>1, <1>3
  <1> QED
    BY <1>2, <1>3, <1>4

\* r holds the identities of the events of a kind among the first i, for every i.
Collects(r, kind, list, n) ==
  r = [i \in 0 .. n |->
         IF i = 0 THEN << >>
         ELSE IF list[i].kind = kind THEN Append(r[i - 1], list[i].id) ELSE r[i - 1]]

\* The same, said of the values.
Collected(r, kind, list, n) ==
  /\ r[0] = << >>
  /\ \A i \in 0 .. n : r[i] \in Seq(Nat)
  /\ \A i \in 0 .. n - 1 :
       /\ list[i + 1].kind = kind => r[i + 1] = Append(r[i], list[i + 1].id)
       /\ list[i + 1].kind # kind => r[i + 1] = r[i]

LEMMA CollectsExists ==
  ASSUME NEW kind, NEW list, NEW n \in Nat
  PROVE  \E r : Collects(r, kind, list, n)
  <1> DEFINE T == {k \in Nat : \E r : Collects(r, kind, list, k)}
  <1>1. 0 \in T
    <2> DEFINE r == [i \in 0 .. 0 |-> << >>]
    <2>1. r = [i \in 0 .. 0 |->
                 IF i = 0 THEN << >>
                 ELSE IF list[i].kind = kind THEN Append(r[i - 1], list[i].id) ELSE r[i - 1]]
      OBVIOUS
    <2>2. Collects(r, kind, list, 0)
      BY <2>1 DEF Collects
    <2> QED
      BY <2>2
  <1>2. ASSUME NEW k \in T PROVE k + 1 \in T
    <2>1. PICK r : Collects(r, kind, list, k)
      OBVIOUS
    <2> DEFINE step == IF list[k + 1].kind = kind THEN Append(r[k], list[k + 1].id) ELSE r[k]
    <2> DEFINE s == [i \in 0 .. k + 1 |-> IF i = k + 1 THEN step ELSE r[i]]
    <2>2. k \in Nat
      OBVIOUS
    <2>3. \A i \in 0 .. k : s[i] = r[i]
      BY <2>2
    <2>4. s[k + 1] = step
      BY <2>2
    <2>5. ASSUME NEW i \in 0 .. k + 1
          PROVE  s[i] = IF i = 0 THEN << >>
                        ELSE IF list[i].kind = kind THEN Append(s[i - 1], list[i].id) ELSE s[i - 1]
      <3> HIDE DEF s, T
      <3>1. CASE i = k + 1
        <4>1. i # 0 /\ i - 1 = k /\ k \in 0 .. k
          BY <2>2, <3>1
        <4>2. s[i - 1] = r[k]
          BY <2>3, <4>1
        <4> QED
          BY <2>4, <3>1, <4>1, <4>2
      <3>2. CASE i # k + 1 /\ i # 0
        <4>1. i \in 0 .. k /\ i - 1 \in 0 .. k
          BY <2>2, <3>2
        <4>2. r[i] = IF list[i].kind = kind THEN Append(r[i - 1], list[i].id) ELSE r[i - 1]
          BY <2>1, <3>2, <4>1 DEF Collects
        <4>3. s[i] = r[i] /\ s[i - 1] = r[i - 1]
          BY <2>3, <4>1
        <4> QED
          BY <3>2, <4>2, <4>3
      <3>3. CASE i = 0
        <4>1. 0 \in 0 .. k
          BY <2>2
        <4>2. r[0] = << >>
          BY <2>1, <4>1 DEF Collects
        <4> QED
          BY <2>3, <3>3, <4>1, <4>2
      <3> QED
        BY <3>1, <3>2, <3>3
    <2>6. s = [i \in 0 .. k + 1 |->
                 IF i = 0 THEN << >>
                 ELSE IF list[i].kind = kind THEN Append(s[i - 1], list[i].id) ELSE s[i - 1]]
      <3> HIDE DEF step
      <3> QED
        BY <2>5
    <2>7. Collects(s, kind, list, k + 1)
      BY <2>6 DEF Collects
    <2> QED
      BY <2>2, <2>7
  <1> HIDE DEF T
  <1>3. T = Nat
    <2>1. T \in SUBSET Nat
      BY DEF T
    <2> QED
      BY <1>1, <1>2, <2>1, SetInduction
  <1> QED
    BY <1>3 DEF T

LEMMA CollectsValues ==
  ASSUME NEW kind, NEW list \in Seq(Entry), NEW r, Collects(r, kind, list, Len(list))
  PROVE  Collected(r, kind, list, Len(list))
  <1> DEFINE n == Len(list)
  <1>0. n \in Nat /\ \A i \in 1 .. n : list[i].id \in Nat
    <2>1. n \in Nat
      OBVIOUS
    <2>2. \A i \in 1 .. Len(list) : list[i].id \in Nat
      BY EntryType
    <2> QED
      BY <2>1, <2>2
  <1> HIDE DEF n
  <1>1. r[0] = << >>
    <2>1. 0 \in 0 .. n
      BY <1>0
    <2> QED
      BY <2>1 DEF Collects, n
  <1>2. ASSUME NEW i \in 0 .. n - 1
        PROVE  /\ list[i + 1].kind = kind => r[i + 1] = Append(r[i], list[i + 1].id)
               /\ list[i + 1].kind # kind => r[i + 1] = r[i]
    <2>1. i + 1 \in 0 .. n /\ i + 1 # 0 /\ (i + 1) - 1 = i
      BY <1>0
    <2>2. r[i + 1] = IF list[i + 1].kind = kind THEN Append(r[(i + 1) - 1], list[i + 1].id) ELSE r[(i + 1) - 1]
      BY <2>1 DEF Collects, n
    <2> QED
      BY <2>1, <2>2
  <1> DEFINE T == {i \in Nat : i <= n => r[i] \in Seq(Nat)}
  <1>3. 0 \in T
    <2>1. << >> \in Seq(Nat)
      OBVIOUS
    <2>2. r[0] \in Seq(Nat)
      BY <1>1, <2>1
    <2> QED
      BY <2>2
  <1>4. ASSUME NEW i \in T PROVE i + 1 \in T
    <2>1. i \in Nat /\ i + 1 \in Nat
      OBVIOUS
    <2>2. ASSUME i + 1 <= n PROVE r[i + 1] \in Seq(Nat)
      <3>1. i \in 0 .. n - 1 /\ i + 1 \in 1 .. n /\ i <= n
        BY <1>0, <2>1, <2>2
      <3>2. r[i] \in Seq(Nat) /\ list[i + 1].id \in Nat
        BY <1>0, <3>1
      <3>3. Append(r[i], list[i + 1].id) \in Seq(Nat)
        BY <3>2
      <3> QED
        BY <1>2, <3>1, <3>2, <3>3
    <2> QED
      BY <2>1, <2>2
  <1> HIDE DEF T
  <1>5. T = Nat
    <2>1. T \in SUBSET Nat
      BY DEF T
    <2> QED
      BY <1>3, <1>4, <2>1, SetInduction
  <1>6. \A i \in 0 .. n : r[i] \in Seq(Nat)
    BY <1>0, <1>5 DEF T
  <1> QED
    BY <1>1, <1>2, <1>6 DEF Collected, n

LEMMA IdsCollected ==
  ASSUME NEW kind, NEW list \in Seq(Entry)
  PROVE  \E r : Collected(r, kind, list, Len(list)) /\ IdsOf(kind, list) = r[Len(list)]
  <1> DEFINE f == CHOOSE r : r = [i \in 0 .. Len(list) |->
                    IF i = 0 THEN << >>
                    ELSE IF list[i].kind = kind THEN Append(r[i - 1], list[i].id) ELSE r[i - 1]]
  <1>0. Len(list) \in Nat
    OBVIOUS
  <1>1. PICK r : Collects(r, kind, list, Len(list))
    BY <1>0, CollectsExists
  <1>2. r = [i \in 0 .. Len(list) |->
               IF i = 0 THEN << >>
               ELSE IF list[i].kind = kind THEN Append(r[i - 1], list[i].id) ELSE r[i - 1]]
    BY <1>1 DEF Collects
  <1>3. f = [i \in 0 .. Len(list) |->
               IF i = 0 THEN << >>
               ELSE IF list[i].kind = kind THEN Append(f[i - 1], list[i].id) ELSE f[i - 1]]
    BY <1>2
  <1>4. IdsOf(kind, list) = f[Len(list)]
    BY DEF IdsOf
  <1> HIDE DEF f
  <1>5. Collects(f, kind, list, Len(list))
    BY <1>3 DEF Collects
  <1> QED
    BY <1>4, <1>5, CollectsValues

\* How the events of a kind change with the list: an event is inserted at p.
InsertedAt(list, p, entry) ==
  [i \in 1 .. Len(list) + 1 |-> IF i < p THEN list[i] ELSE IF i = p THEN entry ELSE list[i - 1]]

LEMMA InsertedValues ==
  ASSUME NEW list \in Seq(Entry), NEW p \in 1 .. Len(list) + 1, NEW entry \in Entry
  PROVE  /\ InsertedAt(list, p, entry) \in Seq(Entry)
         /\ Len(InsertedAt(list, p, entry)) = Len(list) + 1
         /\ \A i \in 1 .. p - 1 : InsertedAt(list, p, entry)[i] = list[i]
         /\ InsertedAt(list, p, entry)[p] = entry
         /\ \A i \in p .. Len(list) : InsertedAt(list, p, entry)[i + 1] = list[i]
  <1> DEFINE n == Len(list)
             s == InsertedAt(list, p, entry)
  <1>1. n \in Nat /\ p \in Nat /\ 1 <= p /\ p <= n + 1 /\ \A i \in 1 .. n : list[i] \in Entry
    OBVIOUS
  <1>2. s = [i \in 1 .. n + 1 |-> IF i < p THEN list[i] ELSE IF i = p THEN entry ELSE list[i - 1]]
    BY DEF InsertedAt
  <1> HIDE DEF n, s
  <1>3. \A i \in 1 .. n + 1 : s[i] \in Entry
    <2> SUFFICES ASSUME NEW i \in 1 .. n + 1 PROVE s[i] \in Entry
      OBVIOUS
    <2>1. CASE i < p
      <3>1. i \in 1 .. n /\ s[i] = list[i]
        BY <1>1, <1>2, <2>1
      <3> QED
        BY <1>1, <3>1
    <2>2. CASE i = p
      BY <1>2, <2>2
    <2>3. CASE i > p
      <3>1. i - 1 \in 1 .. n /\ s[i] = list[i - 1]
        BY <1>1, <1>2, <2>3
      <3> QED
        BY <1>1, <3>1
    <2> QED
      BY <1>1, <2>1, <2>2, <2>3
  <1>4. s \in Seq(Entry) /\ Len(s) = n + 1
    BY <1>1, <1>2, <1>3
  <1>5. \A i \in 1 .. p - 1 : s[i] = list[i]
    BY <1>1, <1>2
  <1>6. s[p] = entry
    BY <1>1, <1>2
  <1>7. \A i \in p .. n : s[i + 1] = list[i]
    BY <1>1, <1>2
  <1> QED
    BY <1>4, <1>5, <1>6, <1>7 DEF n, s

LEMMA IdsInserted ==
  ASSUME NEW kind, NEW list \in Seq(Entry), NEW p \in 1 .. Len(list) + 1, NEW entry \in Entry
  PROVE  /\ entry.kind # kind => IdsOf(kind, InsertedAt(list, p, entry)) = IdsOf(kind, list)
         /\ entry.kind = kind =>
              Len(IdsOf(kind, InsertedAt(list, p, entry))) = Len(IdsOf(kind, list)) + 1
         /\ entry.kind = kind /\ (\A i \in p .. Len(list) : list[i].kind # kind) =>
              IdsOf(kind, InsertedAt(list, p, entry)) = Append(IdsOf(kind, list), entry.id)
  <1> DEFINE n == Len(list)
             s == InsertedAt(list, p, entry)
             last == \A i \in p .. n : list[i].kind # kind
  <1>1. /\ n \in Nat /\ p \in Nat /\ 1 <= p /\ p <= n + 1 /\ entry.id \in Nat
        /\ \A i \in 1 .. n : list[i].id \in Nat
    <2>1. \A i \in 1 .. Len(list) : list[i].id \in Nat
      BY EntryType
    <2>2. entry.id \in Nat
      BY DEF Entry
    <2>3. Len(list) \in Nat /\ p \in Nat /\ 1 <= p /\ p <= Len(list) + 1
      OBVIOUS
    <2> QED
      BY <2>1, <2>2, <2>3
  <1>2. /\ s \in Seq(Entry) /\ Len(s) = n + 1
        /\ \A i \in 1 .. p - 1 : s[i] = list[i]
        /\ s[p] = entry
        /\ \A i \in p .. n : s[i + 1] = list[i]
    BY InsertedValues
  <1>3. PICK r : Collected(r, kind, list, n) /\ IdsOf(kind, list) = r[n]
    BY IdsCollected
  <1> HIDE DEF n, s
  <1>4. PICK t : Collected(t, kind, s, n + 1) /\ IdsOf(kind, s) = t[n + 1]
    <2>1. \E t : Collected(t, kind, s, Len(s)) /\ IdsOf(kind, s) = t[Len(s)]
      BY <1>2, IdsCollected
    <2> QED
      BY <1>2, <2>1
  <1>5. /\ r[0] = << >> /\ \A i \in 0 .. n : r[i] \in Seq(Nat)
        /\ \A i \in 0 .. n - 1 : /\ list[i + 1].kind = kind => r[i + 1] = Append(r[i], list[i + 1].id)
                                 /\ list[i + 1].kind # kind => r[i + 1] = r[i]
    BY <1>3 DEF Collected
  <1>6. /\ t[0] = << >> /\ \A i \in 0 .. n + 1 : t[i] \in Seq(Nat)
        /\ \A i \in 0 .. n : /\ s[i + 1].kind = kind => t[i + 1] = Append(t[i], s[i + 1].id)
                             /\ s[i + 1].kind # kind => t[i + 1] = t[i]
    <2>1. (n + 1) - 1 = n
      BY <1>1
    <2> QED
      BY <1>4, <2>1 DEF Collected
  <1> DEFINE T == {i \in Nat : i < p => t[i] = r[i]}
  <1>7. 0 \in T
    BY <1>5, <1>6
  <1>8. ASSUME NEW i \in T PROVE i + 1 \in T
    <2>1. i \in Nat /\ i + 1 \in Nat
      OBVIOUS
    <2>2. ASSUME i + 1 < p PROVE t[i + 1] = r[i + 1]
      <3>1. i < p /\ i \in 0 .. n - 1 /\ i \in 0 .. n /\ i + 1 \in 1 .. p - 1
        BY <1>1, <2>1, <2>2
      <3>2. t[i] = r[i] /\ s[i + 1] = list[i + 1]
        BY <1>2, <3>1
      <3> QED
        BY <1>5, <1>6, <3>1, <3>2
    <2> QED
      BY <2>1, <2>2
  <1>9. T = Nat
    <2> HIDE DEF T
    <2>1. T \in SUBSET Nat
      BY DEF T
    <2> QED
      BY <1>7, <1>8, <2>1, SetInduction
  <1>10. t[p - 1] = r[p - 1]
    <2>1. p - 1 \in T /\ p - 1 < p
      BY <1>1, <1>9
    <2> QED
      BY <2>1
  <1> DEFINE Behind(i) == /\ entry.kind # kind => t[i + 1] = r[i]
                          /\ entry.kind = kind => Len(t[i + 1]) = Len(r[i]) + 1
                          /\ entry.kind = kind /\ last => t[i + 1] = Append(r[i], entry.id)
  <1>11. Behind(p - 1)
    <2>1. p - 1 \in 0 .. n /\ (p - 1) + 1 = p
      BY <1>1
    <2>2. r[p - 1] \in Seq(Nat)
      BY <1>5, <2>1
    <2>3. /\ entry.kind = kind => t[p] = Append(r[p - 1], entry.id)
          /\ entry.kind # kind => t[p] = r[p - 1]
      BY <1>2, <1>6, <1>10, <2>1
    <2>4. Len(Append(r[p - 1], entry.id)) = Len(r[p - 1]) + 1
      BY <1>1, <2>2
    <2> HIDE DEF last
    <2> QED
      BY <2>1, <2>3, <2>4
  <1>12. ASSUME NEW i \in Nat, p - 1 <= i, i + 1 <= n, Behind(i) PROVE Behind(i + 1)
    <2>1. /\ i \in 0 .. n - 1 /\ i + 1 \in 0 .. n /\ i + 1 \in p .. n /\ i + 1 \in 0 .. n + 1
          /\ i + 1 \in 1 .. n /\ i \in 0 .. n
      BY <1>1, <1>12
    <2>2. s[(i + 1) + 1] = list[i + 1] /\ list[i + 1].id \in Nat
      BY <1>1, <1>2, <2>1
    <2>3. r[i] \in Seq(Nat) /\ t[i + 1] \in Seq(Nat)
      BY <1>5, <1>6, <2>1
    <2>4. CASE list[i + 1].kind = kind
      <3>1. t[(i + 1) + 1] = Append(t[i + 1], list[i + 1].id) /\ r[i + 1] = Append(r[i], list[i + 1].id)
        BY <1>5, <1>6, <2>1, <2>2, <2>4
      <3>2. /\ Len(Append(t[i + 1], list[i + 1].id)) = Len(t[i + 1]) + 1
            /\ Len(Append(r[i], list[i + 1].id)) = Len(r[i]) + 1
            /\ Len(r[i]) \in Nat
        BY <2>2, <2>3
      <3>3. ~last
        BY <2>1, <2>4
      <3> HIDE DEF last
      <3> QED
        BY <1>12, <3>1, <3>2, <3>3
    <2>5. CASE list[i + 1].kind # kind
      <3>1. t[(i + 1) + 1] = t[i + 1] /\ r[i + 1] = r[i]
        BY <1>5, <1>6, <2>1, <2>2, <2>5
      <3> HIDE DEF last
      <3> QED
        BY <1>12, <3>1
    <2> QED
      BY <2>4, <2>5
  <1> HIDE DEF Behind, T
  <1> DEFINE U == {j \in Nat : (p - 1) + j <= n => Behind((p - 1) + j)}
  <1>13. 0 \in U
    <2>1. (p - 1) + 0 = p - 1
      BY <1>1
    <2> QED
      BY <1>11, <2>1
  <1>14. ASSUME NEW j \in U PROVE j + 1 \in U
    <2>1. j \in Nat /\ j + 1 \in Nat
      OBVIOUS
    <2>2. ASSUME (p - 1) + (j + 1) <= n PROVE Behind((p - 1) + (j + 1))
      <3> DEFINE i == (p - 1) + j
      <3>1. i \in Nat /\ p - 1 <= i /\ i + 1 <= n /\ i <= n /\ (p - 1) + (j + 1) = i + 1
        BY <1>1, <2>1, <2>2
      <3>2. Behind(i)
        BY <3>1
      <3> HIDE DEF i
      <3>3. Behind(i + 1)
        BY <1>12, <3>1, <3>2
      <3> QED
        BY <3>1, <3>3
    <2> QED
      BY <2>1, <2>2
  <1>15. U = Nat
    <2> HIDE DEF U
    <2>1. U \in SUBSET Nat
      BY DEF U
    <2> QED
      BY <1>13, <1>14, <2>1, SetInduction
  <1>16. Behind(n)
    <2>1. n - (p - 1) \in Nat /\ (p - 1) + (n - (p - 1)) = n
      BY <1>1
    <2>2. n - (p - 1) \in U
      BY <1>15, <2>1
    <2> QED
      BY <1>1, <2>1, <2>2
  <1> QED
    BY <1>3, <1>4, <1>16 DEF Behind, n, s

\* The front of the list is taken away.
LEMMA TailAppend ==
  ASSUME NEW x \in Seq(Nat), x # << >>, NEW b \in Nat
  PROVE  Tail(Append(x, b)) = Append(Tail(x), b) /\ Append(x, b) # << >>
  OBVIOUS

LEMMA IdsTail ==
  ASSUME NEW kind, NEW list \in Seq(Entry), list # << >>
  PROVE  /\ list[1].kind # kind => IdsOf(kind, Tail(list)) = IdsOf(kind, list)
         /\ list[1].kind = kind =>
              /\ IdsOf(kind, list) # << >> /\ IdsOf(kind, Tail(list)) = Tail(IdsOf(kind, list))
              /\ Len(IdsOf(kind, list)) > 0 /\ Len(IdsOf(kind, Tail(list))) = Len(IdsOf(kind, list)) - 1
  <1> DEFINE n == Len(list)
             s == Tail(list)
  <1>1. n \in Nat /\ 1 <= n
    OBVIOUS
  <1>2. s \in Seq(Entry) /\ Len(s) = n - 1 /\ \A i \in 1 .. n - 1 : s[i] = list[i + 1]
    OBVIOUS
  <1>3. \A i \in 1 .. n : list[i].id \in Nat
    BY EntryType
  <1>4. PICK r : Collected(r, kind, list, n) /\ IdsOf(kind, list) = r[n]
    BY IdsCollected
  <1> HIDE DEF n, s
  <1>5. PICK t : Collected(t, kind, s, n - 1) /\ IdsOf(kind, s) = t[n - 1]
    <2>1. \E t : Collected(t, kind, s, Len(s)) /\ IdsOf(kind, s) = t[Len(s)]
      BY <1>2, IdsCollected
    <2> QED
      BY <1>2, <2>1
  <1>6. /\ r[0] = << >> /\ \A i \in 0 .. n : r[i] \in Seq(Nat)
        /\ \A i \in 0 .. n - 1 : /\ list[i + 1].kind = kind => r[i + 1] = Append(r[i], list[i + 1].id)
                                 /\ list[i + 1].kind # kind => r[i + 1] = r[i]
    BY <1>4 DEF Collected
  <1>7. /\ t[0] = << >> /\ \A i \in 0 .. n - 1 : t[i] \in Seq(Nat)
        /\ \A i \in 0 .. (n - 1) - 1 : /\ s[i + 1].kind = kind => t[i + 1] = Append(t[i], s[i + 1].id)
                                       /\ s[i + 1].kind # kind => t[i + 1] = t[i]
    BY <1>5 DEF Collected
  <1> DEFINE Behind(i) == /\ list[1].kind # kind => t[i] = r[i + 1]
                          /\ list[1].kind = kind => r[i + 1] # << >> /\ t[i] = Tail(r[i + 1])
  <1>8. Behind(0)
    <2>1. 0 \in 0 .. n - 1 /\ 0 + 1 = 1 /\ 1 \in 1 .. n
      BY <1>1
    <2>2. /\ list[1].kind = kind => r[1] = Append(<< >>, list[1].id)
          /\ list[1].kind # kind => r[1] = << >>
      BY <1>6, <2>1
    <2>3. list[1].id \in Nat
      BY <1>3, <2>1
    <2>4. Append(<< >>, list[1].id) # << >> /\ Tail(Append(<< >>, list[1].id)) = << >>
      BY <2>3
    <2> QED
      BY <1>7, <2>1, <2>2, <2>4
  <1>9. ASSUME NEW i \in Nat, i + 1 <= n - 1, Behind(i) PROVE Behind(i + 1)
    <2>1. i \in 0 .. (n - 1) - 1 /\ i + 1 \in 0 .. n - 1 /\ i + 1 \in 1 .. n - 1 /\ (i + 1) + 1 \in 1 .. n /\ i + 1 \in 0 .. n
      BY <1>1, <1>9
    <2>2. s[i + 1] = list[(i + 1) + 1] /\ list[(i + 1) + 1].id \in Nat
      BY <1>2, <1>3, <2>1
    <2>3. r[i + 1] \in Seq(Nat)
      BY <1>6, <2>1
    <2>4. CASE list[(i + 1) + 1].kind = kind
      <3> DEFINE b == list[(i + 1) + 1].id
      <3>1. t[i + 1] = Append(t[i], b) /\ r[(i + 1) + 1] = Append(r[i + 1], b)
        BY <1>6, <1>7, <2>1, <2>2, <2>4
      <3>2. b \in Nat
        BY <2>2
      <3> HIDE DEF b
      <3>3. r[i + 1] # << >> => Tail(Append(r[i + 1], b)) = Append(Tail(r[i + 1]), b) /\ Append(r[i + 1], b) # << >>
        BY <2>3, <3>2, TailAppend
      <3> QED
        BY <1>9, <3>1, <3>3
    <2>5. CASE list[(i + 1) + 1].kind # kind
      <3>1. t[i + 1] = t[i] /\ r[(i + 1) + 1] = r[i + 1]
        BY <1>6, <1>7, <2>1, <2>2, <2>5
      <3> QED
        BY <1>9, <3>1
    <2> QED
      BY <2>4, <2>5
  <1> HIDE DEF Behind
  <1> DEFINE U == {i \in Nat : i <= n - 1 => Behind(i)}
  <1>10. 0 \in U
    BY <1>8
  <1>11. ASSUME NEW i \in U PROVE i + 1 \in U
    <2>1. i \in Nat /\ i + 1 \in Nat
      OBVIOUS
    <2>2. i + 1 <= n - 1 => i <= n - 1
      BY <1>1, <2>1
    <2> QED
      BY <1>9, <2>1, <2>2
  <1> HIDE DEF U
  <1>12. U = Nat
    <2>1. U \in SUBSET Nat
      BY DEF U
    <2> QED
      BY <1>10, <1>11, <2>1, SetInduction
  <1>13. Behind(n - 1)
    <2>1. n - 1 \in Nat /\ n - 1 <= n - 1
      BY <1>1
    <2> QED
      BY <1>12, <2>1 DEF U
  <1>14. /\ list[1].kind # kind => t[n - 1] = r[n]
         /\ list[1].kind = kind => r[n] # << >> /\ t[n - 1] = Tail(r[n])
    <2>1. (n - 1) + 1 = n
      BY <1>1
    <2> QED
      BY <1>13, <2>1 DEF Behind
  <1>15. r[n] \in Seq(Nat)
    BY <1>1, <1>6
  <1>16. r[n] # << >> => Len(r[n]) > 0 /\ Len(Tail(r[n])) = Len(r[n]) - 1
    BY <1>15
  <1> QED
    BY <1>4, <1>5, <1>14, <1>16 DEF n, s

----------------------------------------------------------------------------
\* A death that waits is due within its delay, so that nothing but RunReconcile
\* events is behind the place where the next death goes.
DeathsDue ==
  \A i \in DOMAIN delayedEvents :
    delayedEvents[i].kind = "dead" => delayedEvents[i].applyAt <= now + DeathDelay

RefinementInv == QueueInv /\ DeathsDue

LEMMA DelayInserts ==
  ASSUME QueueInv, NEW kind \in Kinds, NEW delay \in Nat, delayEvent(kind, delay)
  PROVE  \E p \in 1 .. Len(delayedEvents) + 1, entry \in Entry :
           /\ entry.kind = kind /\ entry.id = delayed /\ entry.applyAt = now + delay
           /\ delayedEvents' = InsertedAt(delayedEvents, p, entry)
           /\ \A i \in p .. Len(delayedEvents) : delayedEvents[i].applyAt > now + delay
  <1> DEFINE t == now + delay
             entry == [kind |-> kind, id |-> delayed, applyAt |-> t]
             p == Position(t)
  <1>1. t \in Nat /\ entry \in Entry /\ entry.applyAt = t /\ entry.kind = kind /\ entry.id = delayed
    BY DEF QueueInv, TypeOK, Entry
  <1>2. p \in 1 .. Len(delayedEvents) + 1 /\ \A i \in DOMAIN delayedEvents : i >= p => delayedEvents[i].applyAt > t
    BY <1>1, PositionSplits
  <1>3. delayedEvents' = InsertedAt(delayedEvents, p, entry)
    BY <1>1 DEF delayEvent, Inserted, InsertedAt
  <1> HIDE DEF p, entry
  <1>4. \A i \in p .. Len(delayedEvents) : i \in DOMAIN delayedEvents /\ i >= p
    BY <1>2 DEF QueueInv, TypeOK
  <1> QED
    BY <1>1, <1>2, <1>3, <1>4

LEMMA DeathsDelay ==
  ASSUME RefinementInv, NEW kind \in Kinds, NEW delay \in Nat, delayEvent(kind, delay),
         kind = "dead" => delay = DeathDelay
  PROVE  DeathsDue'
  <1> DEFINE n == Len(delayedEvents)
  <1>1. PICK p \in 1 .. n + 1, entry \in Entry :
          /\ entry.kind = kind /\ entry.applyAt = now + delay
          /\ delayedEvents' = InsertedAt(delayedEvents, p, entry)
    BY DelayInserts DEF RefinementInv
  <1>2. now' = now
    BY DEF delayEvent
  <1>3. n \in Nat /\ DOMAIN delayedEvents = 1 .. n /\ p \in Nat /\ delayedEvents \in Seq(Entry)
    BY <1>1 DEF RefinementInv, QueueInv, TypeOK
  <1>4. delayedEvents' = [i \in 1 .. n + 1 |->
          IF i < p THEN delayedEvents[i] ELSE IF i = p THEN entry ELSE delayedEvents[i - 1]]
    BY <1>1 DEF InsertedAt
  <1> HIDE DEF n
  <1>5. ASSUME NEW i \in 1 .. n + 1, delayedEvents'[i].kind = "dead"
        PROVE  delayedEvents'[i].applyAt <= now + DeathDelay
    <2>1. CASE i < p
      <3>1. i \in 1 .. n /\ delayedEvents'[i] = delayedEvents[i]
        BY <1>1, <1>3, <1>4, <2>1
      <3> QED
        BY <1>3, <1>5, <3>1 DEF RefinementInv, DeathsDue
    <2>2. CASE i = p
      <3>1. delayedEvents'[i] = entry
        BY <1>3, <1>4, <2>2
      <3>2. now + DeathDelay <= now + DeathDelay
        BY DelaysAssumption DEF RefinementInv, QueueInv, TypeOK
      <3> QED
        BY <1>1, <1>5, <3>1, <3>2
    <2>3. CASE i > p
      <3>1. i - 1 \in 1 .. n /\ delayedEvents'[i] = delayedEvents[i - 1]
        BY <1>1, <1>3, <1>4, <2>3
      <3> QED
        BY <1>3, <1>5, <3>1 DEF RefinementInv, DeathsDue
    <2> QED
      BY <1>3, <2>1, <2>2, <2>3
  <1>6. DOMAIN delayedEvents' = 1 .. n + 1
    BY <1>4
  <1> QED
    BY <1>2, <1>5, <1>6 DEF DeathsDue

LEMMA DeathsNext == RefinementInv /\ [Next]_vars => DeathsDue'
  <1> SUFFICES ASSUME RefinementInv, [Next]_vars PROVE DeathsDue'
    OBVIOUS
  <1>0. now \in Nat /\ DeathDelay \in Nat /\ delayedEvents \in Seq(Entry)
    BY DelaysAssumption DEF RefinementInv, QueueInv, TypeOK
  <1>1. CASE Tick
    <2>1. now' = now + 1 /\ delayedEvents' = delayedEvents
      BY <1>1 DEF Tick
    <2>2. \A i \in DOMAIN delayedEvents : delayedEvents[i].applyAt \in Nat
      BY <1>0, EntryType
    <2> QED
      BY <1>0, <2>1, <2>2 DEF RefinementInv, DeathsDue
  <1>2. CASE DelayDeath
    BY <1>2, DeathsDelay, DelaysAssumption DEF DelayDeath, Kinds
  <1>3. CASE DelayRun
    BY <1>3, DeathsDelay, DelaysAssumption DEF DelayRun, Kinds
  <1>4. CASE TimerFires
    <2>1. delayedEvents # << >> /\ delayedEvents' = Tail(delayedEvents) /\ now' = now
      BY <1>4 DEF TimerFires, RefinementInv, QueueInv, TimerForFront
    <2>2. \A i \in DOMAIN delayedEvents' :
             i + 1 \in DOMAIN delayedEvents /\ delayedEvents'[i] = delayedEvents[i + 1]
      BY <1>0, <2>1
    <2> QED
      BY <2>1, <2>2 DEF RefinementInv, DeathsDue
  <1>5. CASE ResetTimer \/ UNCHANGED vars
    BY <1>5 DEF ResetTimer, vars, RefinementInv, DeathsDue
  <1> QED
    BY <1>1, <1>2, <1>3, <1>4, <1>5 DEF Next

LEMMA RefinementAlways == Spec => []RefinementInv
  <1>1. Init => DeathsDue
    <2> SUFFICES ASSUME Init PROVE DeathsDue
      OBVIOUS
    <2>1. DOMAIN delayedEvents = {1} /\ delayedEvents[1].kind = "run"
      BY DEF Init
    <2> QED
      BY <2>1 DEF DeathsDue
  <1> QED
    BY <1>1, DeathsNext, QueueInit, QueueNext, PTL DEF Spec, RefinementInv

\* Every step of the list is a step of the two queues, or leaves them alone.
LEMMA MapsInit == Init => Abstract!Init
  <1> SUFFICES ASSUME Init PROVE Abstract!Init
    OBVIOUS
  <1> DEFINE e == [kind |-> "run", id |-> 0, applyAt |-> 0]
  <1>1. e \in Entry /\ e.kind = "run"
    BY DEF Entry, Kinds
  <1>2. delayedEvents = <<e>>
    BY DEF Init
  <1> HIDE DEF e
  <1>3. delayedEvents \in Seq(Entry) /\ Len(delayedEvents) = 1 /\ delayedEvents[1] = e
    BY <1>1, <1>2
  <1>4. PICK r : Collected(r, "run", delayedEvents, 1) /\ IdsOf("run", delayedEvents) = r[1]
    BY <1>3, IdsCollected
  <1>5. PICK t : Collected(t, "dead", delayedEvents, 1) /\ IdsOf("dead", delayedEvents) = t[1]
    BY <1>3, IdsCollected
  <1>6. 0 \in 0 .. 1 - 1 /\ 0 + 1 = 1
    OBVIOUS
  <1>7. r[1] = Append(<< >>, e.id)
    BY <1>1, <1>3, <1>4, <1>6 DEF Collected
  <1>8. t[1] = << >>
    BY <1>1, <1>3, <1>5, <1>6 DEF Collected
  <1>9. Len(Append(<< >>, e.id)) = 1
    BY <1>1 DEF Entry
  <1> QED
    BY <1>4, <1>5, <1>7, <1>8, <1>9 DEF Abstract!Init

LEMMA MapsDelay ==
  ASSUME RefinementInv, DelayDeath \/ DelayRun
  PROVE  Abstract!Next
  <1>0. delayedEvents \in Seq(Entry) /\ now \in Nat
    BY DEF RefinementInv, QueueInv, TypeOK
  <1>1. CASE DelayDeath
    <2>1. delayEvent("dead", DeathDelay) /\ delayed \in 0 .. MaxDelayed
      BY <1>1, DelaysAssumption DEF DelayDeath, delayEvent, RefinementInv, QueueInv, TypeOK
    <2>2. PICK p \in 1 .. Len(delayedEvents) + 1, entry \in Entry :
            /\ entry.kind = "dead" /\ entry.id = delayed
            /\ delayedEvents' = InsertedAt(delayedEvents, p, entry)
            /\ \A i \in p .. Len(delayedEvents) : delayedEvents[i].applyAt > now + DeathDelay
      BY <2>1, DelayInserts, DelaysAssumption DEF RefinementInv, Kinds
    <2>3. \A i \in p .. Len(delayedEvents) : delayedEvents[i].kind # "dead"
      <3> SUFFICES ASSUME NEW i \in p .. Len(delayedEvents), delayedEvents[i].kind = "dead" PROVE FALSE
        OBVIOUS
      <3>1. i \in DOMAIN delayedEvents /\ i \in 1 .. Len(delayedEvents)
        BY <1>0, <2>2
      <3>2. delayedEvents[i].applyAt \in Nat
        BY <1>0, <3>1, EntryType
      <3>3. delayedEvents[i].applyAt <= now + DeathDelay
        BY <3>1 DEF RefinementInv, DeathsDue
      <3> QED
        BY <1>0, <2>2, <3>2, <3>3, DelaysAssumption
    <2>4. IdsOf("dead", delayedEvents') = Append(IdsOf("dead", delayedEvents), delayed)
      BY <1>0, <2>2, <2>3, IdsInserted
    <2>5. IdsOf("run", delayedEvents') = IdsOf("run", delayedEvents)
      <3>1. entry.kind # "run"
        BY <2>2
      <3> QED
        BY <1>0, <2>2, <3>1, IdsInserted
    <2>6. Abstract!DelayDeath(delayed)
      BY <2>4, <2>5 DEF Abstract!DelayDeath
    <2> QED
      BY <2>1, <2>6 DEF Abstract!Next
  <1>2. CASE DelayRun
    <2>1. delayEvent("run", RetryDelay)
      BY <1>2 DEF DelayRun
    <2>2. PICK p \in 1 .. Len(delayedEvents) + 1, entry \in Entry :
            entry.kind = "run" /\ delayedEvents' = InsertedAt(delayedEvents, p, entry)
      BY <2>1, DelayInserts, DelaysAssumption DEF RefinementInv, Kinds
    <2>3. Len(IdsOf("run", delayedEvents')) = Len(IdsOf("run", delayedEvents)) + 1
      BY <1>0, <2>2, IdsInserted
    <2>4. IdsOf("dead", delayedEvents') = IdsOf("dead", delayedEvents)
      <3>1. entry.kind # "dead"
        BY <2>2
      <3> QED
        BY <1>0, <2>2, <3>1, IdsInserted
    <2>5. Abstract!DelayRun
      BY <2>3, <2>4 DEF Abstract!DelayRun
    <2> QED
      BY <2>5 DEF Abstract!Next
  <1> QED
    BY <1>1, <1>2

LEMMA MapsTimer ==
  ASSUME RefinementInv, TimerFires
  PROVE  Abstract!Next
  <1>1. delayedEvents # << >> /\ delayedEvents \in Seq(Entry)
    BY DEF TimerFires, RefinementInv, QueueInv, TypeOK, TimerForFront
  <1>2. delayedEvents' = Tail(delayedEvents)
    BY <1>1 DEF TimerFires
  <1>3. delayedEvents[1].kind = "dead" \/ delayedEvents[1].kind = "run"
    <2>1. 1 \in 1 .. Len(delayedEvents)
      BY <1>1
    <2> QED
      BY <1>1, <2>1, EntryType DEF Kinds
  <1>4. CASE delayedEvents[1].kind = "dead"
    <2>1. /\ IdsOf("dead", delayedEvents) # << >>
          /\ IdsOf("dead", delayedEvents') = Tail(IdsOf("dead", delayedEvents))
      BY <1>1, <1>2, <1>4, IdsTail
    <2>2. IdsOf("run", delayedEvents') = IdsOf("run", delayedEvents)
      <3>1. delayedEvents[1].kind # "run"
        BY <1>4
      <3> QED
        BY <1>1, <1>2, <3>1, IdsTail
    <2>3. Abstract!HandleDeath
      BY <2>1, <2>2 DEF Abstract!HandleDeath
    <2> QED
      BY <2>3 DEF Abstract!Next
  <1>5. CASE delayedEvents[1].kind = "run"
    <2>1. /\ Len(IdsOf("run", delayedEvents)) > 0
          /\ Len(IdsOf("run", delayedEvents')) = Len(IdsOf("run", delayedEvents)) - 1
      BY <1>1, <1>2, <1>5, IdsTail
    <2>2. IdsOf("dead", delayedEvents') = IdsOf("dead", delayedEvents)
      <3>1. delayedEvents[1].kind # "dead"
        BY <1>5
      <3> QED
        BY <1>1, <1>2, <3>1, IdsTail
    <2>3. Abstract!HandleRun
      BY <2>1, <2>2 DEF Abstract!HandleRun
    <2> QED
      BY <2>3 DEF Abstract!Next
  <1> QED
    BY <1>3, <1>4, <1>5

\* The sorted list with its one timer implements the queue of deaths and the count
\* of RunReconcile events on which the event loop relies, whatever the two delays
\* are: no delayed event is lost or handled twice, and deaths keep their order
\* (delayEvent and handleDelayedEvent of delay.go).
THEOREM DelayQueueRefines == Spec => ImplementsDelayedEvents
  <1>1. RefinementInv /\ [Next]_vars => [Abstract!Next]_(Abstract!vars)
    <2> SUFFICES ASSUME RefinementInv, [Next]_vars PROVE Abstract!Next \/ UNCHANGED Abstract!vars
      OBVIOUS
    <2>1. CASE UNCHANGED delayedEvents
      BY <2>1 DEF Abstract!vars
    <2>2. CASE Tick \/ ResetTimer \/ UNCHANGED vars
      BY <2>1, <2>2 DEF Tick, ResetTimer, vars
    <2> QED
      BY <2>2, MapsDelay, MapsTimer DEF Next
  <1> QED
    BY <1>1, MapsInit, RefinementAlways, PTL DEF Spec, ImplementsDelayedEvents, Abstract!Spec
=============================================================================
