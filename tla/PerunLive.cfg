\* Nobody dies and there may be a dispute.
CONSTANTS
  Leaf = {l1}
  MaxVersion = 2
  QueueCap = 3
  MaxNet = 2
  Challenge = 1
  Faults = {"dispute"}
  None = None
SPECIFICATION LiveSpec
INVARIANT TowerRefutes
PROPERTY TowerEndsUpNewest
CHECK_DEADLOCK FALSE
