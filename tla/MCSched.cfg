SPECIFICATION Spec
CONSTANTS
  Task = {kmain, t1, t2}
  Kmain = kmain
  NoTask = none
  TimeSlice = 1
  SliceInputs = {0, 1}
SYMMETRY Symmetry
INVARIANT TypeOK
INVARIANT QueuesMatchStates
INVARIANT NothingAboveDynamic
INVARIANT AlwaysATask
PROPERTY SwitchToBest
CHECK_DEADLOCK FALSE
