\* No process dies; pushes fail now and then.
CONSTANTS
  Funding = 2
  SettleDelay = 2
  Setups <- SmoothSetups
SPECIFICATION LiveSpec
PROPERTY ClosureCompletes
PROPERTY PayeeLearnsOfClosure
PROPERTY TowerCatchesUp
