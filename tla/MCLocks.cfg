SPECIFICATION MCSpec
CONSTANTS
  Task = {t1, t2, t3}
  Process = {t1}
  Mutex = {"count_mutex", "rw_mutex", "write_mutex"}
  NoTask = none
  NoMutex = nomutex
  Sema = {l1}
  Value = 1
  Clocks = 4
  Timeouts = {2}
  MaxSignals = 1
  MaxNest = 2
  Uses = {"rwlock", "mutex", "sema", "lock", "alone"}
INVARIANT MutualExclusion
INVARIANT WaitListConsistent
INVARIANT NoLostWakeup
INVARIANT RWExclusion
INVARIANT SemaphoreExact
INVARIANT AssertsHold
PROPERTY ImplementsLock
PROPERTY SyncImplementsLock
PROPERTY RWProgress
PROPERTY SyncServed
