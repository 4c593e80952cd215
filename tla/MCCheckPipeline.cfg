SPECIFICATION Spec
CONSTANTS
  Targets = {t1}
  Workers = {w1, w2}
  Outcomes <- MCOutcomes
  SuccessBeforePassing = 2
  FailuresBeforeCritical = 1
  Width = 2
  ExecutorBuffer = 1
  NotifierBuffer = 1
  MaxAdds = 1
  MaxFaults = 2
INVARIANTS TypeOK Hysteresis NewestReportIsCurrent NewestReportKept
PROPERTIES TurnsOnStreak   StatusArrives
CHECK_DEADLOCK FALSE
