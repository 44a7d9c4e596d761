SPECIFICATION MCSpec
CONSTANTS
  N = 4
  KThread = {}
  Triggered = {}
  Uses = {"any"}
PROPERTY WaiterReturns
CHECK_DEADLOCK FALSE
