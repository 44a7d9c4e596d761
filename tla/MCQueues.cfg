SPECIFICATION MCSpec
CONSTANTS
  Task = {r, a, b}
  RQ = RQ
  WQ = WQ
  NULL = NULL
  Idle = Idle
  Consumer = {r}
  Max = 4
  Sizes = 8
  reader = r
  Process = {r}
  DEVICE_QUEUE_ENTRY_NR = 3
  Reader = {r1}
  Writer = {w1}
  Other = {o}
  Handler = irq1
  NoTask = none
  Byte = {0, 1}
  Size = 2
  Thread = {a, b, c}
  NoThread = none
  Handle = {0, 1, 2, 3}
  Kinds = {"NORMAL", "ERRORCHECK", "RECURSIVE", "SEM", "TIMED"}
  Value = 0
  MaxValue = 2
  MaxNest = 2
  Server = {s1, s2}
  Caller = {c1, c2}
  Parts = {"pool", "device", "keyboard", "user", "service"}
INVARIANT ListsExact
INVARIANT SleepsOnlyWhenEmpty
INVARIANT ForgetsNobody
INVARIANT CallsServed
PROPERTY FifoIoIsAQueue
PROPERTY UserLockIsALock
\* A failed check of the list code stops the kernel, and a handler
\* that sleeps on the task it interrupted stops the keyboard.
CHECK_DEADLOCK FALSE
