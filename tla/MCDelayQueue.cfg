SPECIFICATION FairSpec
CONSTANTS
  DeathDelay = 2
  RetryDelay = 3
  MaxDelayed = 5
  MaxNow = 8
CHECK_DEADLOCK FALSE
INVARIANTS
  TimerForFront
PROPERTIES
  HandledWhenDue
  EveryEventHandled
  ImplementsDelayedEvents
