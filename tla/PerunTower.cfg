\* Tower and leaves may die, databases may be old, the chain may be away.
CONSTANTS
  Leaf = {l1, l2}
  MaxVersion = 2
  QueueCap = 2
  MaxNet = 2
  Challenge = 1
  Faults = {"tower", "leaf", "stale", "chain"}
  None = None
SPECIFICATION Spec
SYMMETRY Leaves
INVARIANT TypeOK
INVARIANT OkedIsHeld
INVARIANT FeedIsComplete
CHECK_DEADLOCK FALSE
