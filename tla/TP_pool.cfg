SPECIFICATION EndingSpec
CONSTANTS
  MIN_THREADS = 1
  MaxTasks = 2
  Many = 99
INVARIANTS TypeOK CountersCorrect NoLostWakeup
PROPERTIES ImplementsWorkers EveryTaskRuns TimedThreadsEndAfterDrop
CHECK_DEADLOCK FALSE
