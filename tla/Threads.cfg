SPECIFICATION ThreadsSpec
CONSTANTS
  Workers = {w1, w2, w3}
  Callers = {c1, c2}
  Jobs = {j1, j2, j3}
  Throwing = {j3}
  NoJob = NoJob
  Names = {n1, n2}
  MaxVersions = 4
INVARIANTS
  TypeOK
  HandOutIsFifo
  WakeupsCoverJobs
  ShutdownIsSafe
  PersistentTypeOK
  AtMostOneLateRun
  SleepsOnlyWhenIdle
PROPERTIES
  QueuedJobIsServed
  DestructorReturns
  ImplementsService
  RegisteredTaskRuns
  WorkerIsDestroyed
