SPECIFICATION SpecWithClose
CONSTANTS
  Task = {kmain, t1, t2}
  Kmain = kmain
  NoTask = none
  TimeSlice = 1
  SliceInputs = {0, 1}
INVARIANT LengthCountsTasks
CHECK_DEADLOCK FALSE
