SPECIFICATION MCSpec
CONSTANTS
  N = 5
  KThread = {4}
  Triggered = {2}
  Uses = {"any", "poll"}
INVARIANT ParentAlive
PROPERTY CollectedOnce
PROPERTY DeadAreFreed
\* A panic stops the kernel.
CHECK_DEADLOCK FALSE
