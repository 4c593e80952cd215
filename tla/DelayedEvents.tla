---------------------------- MODULE DelayedEvents ----------------------------
(***************************************************************************)
(* What the reconciler's event loop relies on when it delays an event      *)
(* (module Reconciler uses exactly these four steps): every delayed event  *)
(* is handled once, deaths in the order in which they were delayed.        *)
(* Nothing is said about when a delayed RunReconcile comes.                *)
(***************************************************************************)
EXTENDS Integers, Sequences

CONSTANT Deaths       \* identities of the delayed deaths

VARIABLES
  delayedDeaths,      \* the deaths that wait, in order
  delayedRuns         \* how many RunReconcile events wait

vars == <<delayedDeaths, delayedRuns>>

Init == delayedDeaths = << >> /\ delayedRuns = 1

DelayDeath(death) ==
  /\ delayedDeaths' = Append(delayedDeaths, death)
  /\ UNCHANGED delayedRuns

DelayRun ==
  /\ delayedRuns' = delayedRuns + 1
  /\ UNCHANGED delayedDeaths

HandleDeath ==
  /\ delayedDeaths # << >>
  /\ delayedDeaths' = Tail(delayedDeaths)
  /\ UNCHANGED delayedRuns

HandleRun ==
  /\ delayedRuns > 0
  /\ delayedRuns' = delayedRuns - 1
  /\ UNCHANGED delayedDeaths

Next == (\E death \in Deaths : DelayDeath(death)) \/ DelayRun \/ HandleDeath \/ HandleRun

Spec == Init /\ [][Next]_vars
=============================================================================
