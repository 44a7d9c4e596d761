SPECIFICATION CpuSpec
CONSTANTS
  Task = {kmain, t1, t2}
  Kmain = kmain
  NoTask = none
  TimeSlice = 1
  SliceInputs = {0, 1}
PROPERTY NoStarvation
CHECK_DEADLOCK FALSE
