\* Three DPUs: one in the middle of the undo loop.  The module may stay out.
CONSTANTS
  DPUS_PER_RANK = 3
  MaxLoads = 3
SPECIFICATION LifeSpec
INVARIANTS
  UndoReachesAll
  OpsBacked
CHECK_DEADLOCK FALSE
