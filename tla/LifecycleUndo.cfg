\* Does the undo of dpu_alloc hand anything to kfree twice?
CONSTANTS
  DPUS_PER_RANK = 3
  MaxLoads = 3
SPECIFICATION LifeSpec
INVARIANT
  UndoFreesOnce
CHECK_DEADLOCK FALSE
