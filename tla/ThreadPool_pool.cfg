SPECIFICATION FairSpec
CONSTANTS
  t1 = t1  t2 = t2  t3 = t3  d1 = d1  d2 = d2
  NoTask = NoTask
  ThreadCount = 2
  QueueSize = 2
  Tasks <- ThreeTasks
  Destroyers <- TwoDestroyers
INVARIANTS NoLostWakeup ReleasedWhenQuiet GracefulDrains
PROPERTIES ImplementsTaskPool AcceptedTaskRuns DestroyOnceReturns
CHECK_DEADLOCK FALSE
