SPECIFICATION MCSpec
CONSTANTS
  Task = {kmain, t1, t2}
  Kmain = kmain
  NoTask = none
  TimeSlice = 1
  SliceInputs = {}
  SleepTime = 2
  Timer = {x1, x2}
  idle = idle
  IdleTime = 4
  Delays = {1, 3}
  Clocks = 16
  Garbage = {0, 9}
  Horizon = 5
  High = {h}
  Low = {l}
  MAX_REDO_IRQ = 2
  MaxFrames = 2
  Sender = {s1, s2}
  Sent = {3, 4, 5}
  Caught = {9}
  Masks = {{3, 9}}
  MaxDepth = 1
  HZ = 2
  Seconds = {0, 1}
  Parts = {"timer", "sleep", "softirq", "trigger"}
INVARIANT TimersInOrder
INVARIANT NoEventLost
INVARIANT NoTriggerForgotten
PROPERTY NeverEarly
PROPERTY NoEarlyReturn
\* A failed ASSERT stops the kernel, a process dies, and time ends at the horizon.
CHECK_DEADLOCK FALSE
