SPECIFICATION MCSpec
CONSTANTS
  PIPE_SIZE = 2
  Requests = {1, 3}
  Reader = {r1, r2}
  Writer = {w1, w2}
  FirstReader = r1
  FirstWriter = w1
  Numbers = 3
  Byte = {0, 1}
  Size = 4
  Uints = 16
  MaxLen = 5
  Client = {t1, t2, t3}
  Slot = {q1}
  Name = {a}
  NoName = none
  MSGQ_MAX_MSGS = 1
  Uchars = 256
  Type = {1, 2}
  N = 3
  PTHREAD_MAX_NR = 3
  Cancelled = {2}
  PAGE_SIZE = 2
  USER_VMM_SIZE = 18
  MAX_VMS_HEAP_SIZE = 6
  HeapStart = 2
  MapStart = 8
  MapEnd = 16
  Fixed = {10, 14}
  Length = {1, 4}
  Flags = {"own", "shared", "named"}
  Proc = {p1, p2}
  FirstProc = p1
  ShmSlot = {1, 2}
  ShmName = {a, b}
  Page = {g1, g2}
  NoPage = zero
  MaxLinks = 2
  rd = nr
  wr = nw
  RQ = RQ
  WQ = WQ
  NULL = NULL
  Idle = Idle
  FIFO_SIZE = 1
  MaxRef = 2
  Parts = {"pipe", "buffer", "queue", "threads", "space", "shared", "named"}
INVARIANT StreamExact
INVARIANT NobodyForgotten
INVARIANT FreedWhenUnused
INVARIANT QueueServed
INVARIANT CountExact
INVARIANT JoinerRemembered
INVARIANT SpacesExact
INVARIANT SharedPagesLive
INVARIANT NamedPipeServed
PROPERTY BufferIsAQueue
\* Readers whose writers are gone and writers whose readers are gone sleep on, and
\* a panic stops the kernel.
CHECK_DEADLOCK FALSE
